---- MODULE Spec2Model ----
(***************************************************************************)
(* Model of the broker's router/handler registry (core/broker/broker.go),  *)
(* of the deduplicator it constructs, and of the network server's          *)
(* HandleUplink (core/networkserver/uplink.go).                            *)
(***************************************************************************)
EXTENDS Integers, Sequences, FiniteSets, TLC

\* ---------------------------------------------------------------- bounds
NumProcs == 2
MaxCalls == 4
MaxUplinks == 2
MaxFCnt == 2
MaxReports == 3
MaxPoolCalls == 4
\* the deduplication window (NewBroker's timeout), in ticks
Window == 2

Procs == 1..NumProcs
Ids   == {"id-1", "id-2"}
Nil   == 0
Kinds == {"router", "handler"}

RouterOps  == {"ActivateRouterDownlink", "DeactivateRouterDownlink", "getRouterDownlink"}
HandlerOps == {"ActivateHandlerUplink", "DeactivateHandlerUplink", "getHandlerUplink"}
ConnOps    == {"getHandlerConn"}

\* error kinds of utils/errors used by the registry
ErrNil      == "nil"
ErrInternal == "Internal"
ErrNotFound == "NotFound"

VARIABLES
  registry,           \* the registry the callers of this run work on
  routers,            \* b.routers: id -> router, a partial map
  routersLock,        \* b.routersLock: the holder, or Nil
  handlers,           \* b.handlers: id -> handler, a partial map
  handlersLock,       \* b.handlersLock: the holder, or Nil
  chans,              \* every channel made so far: "open" or "closed"
  connectedRouters,   \* the connectedRouters gauge
  connectedHandlers,  \* the connectedHandlers gauge
  pc, op, arg, ret,   \* per goroutine: position, running call, its id, its result
  calls,              \* number of calls started
  nAct, nDeact,       \* history: calls that returned without error, per kind and id
  \* network server
  devices,            \* n.devices: the device store, DevEUI -> record
  updating,           \* per device: the HandleUplink call holding its update, or Nil
  uplinkMark,         \* n.status.uplink
  clock,              \* time.Now()
  nsPc, nsMsg,        \* per HandleUplink call: position, its message
  nsDev, nsErr,       \* its dev and its local err
  nsRet, nsLogs,      \* the values it returned, the levels it logged
  nGet, nSet,         \* history: its devices.Get and devices.Set invocations
  nsCalls,            \* number of HandleUplink calls started
  \* deduplicators
  reports,            \* every submitted report, by caller: instance, key, snr
  promises,           \* per caller: 0 while pending, else the winning caller
  groups,             \* per instance and key: the open group (members, time left)
  resolved,           \* history: the resolutions, in order
  forwarded,          \* the messages forwarded after a resolution, in order
  \* broker.Init
  initPc,             \* where the Init call is
  initRet,            \* what Init returned
  status,             \* the component status
  nsCert,             \* b.nsCert
  nsConn,             \* b.nsConn
  nsPrefixes,         \* checkPrefixAnnouncements: prefix -> usage, as a set of pairs
  announcedPrefixes,  \* checkPrefixAnnouncements: the prefixes of the announcement
  todoPrefixes,       \* the entries of nsPrefixes the range loop has not visited
  checkErr,           \* the result of checkPrefixAnnouncements
  initLogs,           \* the log entries written
  \* api/pool
  poolConns,          \* Pool.conns: target -> its entry (index into entries), Nil when absent
  entries,            \* every *conn made, in order, with the state of its dial goroutine
  dialers,            \* the callers of Pool.dial: position, target, entry held, result
  nPoolCalls,         \* number of calls made on the pool
  poolPanic           \* a nil cancel function was called

regVars  == <<routers, routersLock, handlers, handlersLock, chans,
              connectedRouters, connectedHandlers>>
procVars == <<pc, op, arg, ret>>
histVars == <<registry, calls, nAct, nDeact>>
nsVars   == <<devices, updating, uplinkMark, clock, nsPc, nsMsg, nsDev, nsErr,
              nsRet, nsLogs, nGet, nSet, nsCalls>>
brokerVars == <<regVars, procVars, histVars>>
dedupVars == <<reports, promises, groups, resolved, forwarded>>
initVars == <<initPc, initRet, status, nsCert, nsConn, nsPrefixes, announcedPrefixes,
              todoPrefixes, checkErr, initLogs>>
poolVars == <<poolConns, entries, dialers, nPoolCalls, poolPanic>>
vars     == <<brokerVars, nsVars, dedupVars, initVars, poolVars>>

NoRet == [err |-> ErrNil, ch |-> Nil]

\* new(router) / new(handler): the zero value
NewRouter  == [downlinkConns |-> 0, downlink |-> Nil, mu |-> Nil]
NewHandler == [conn |-> Nil, uplinkConns |-> 0, uplink |-> Nil, mu |-> Nil]

\* NewBroker: empty maps, free locks
InitBroker ==
  /\ routers = <<>>
  /\ routersLock = Nil
  /\ handlers = <<>>
  /\ handlersLock = Nil
  /\ chans = <<>>
  /\ connectedRouters = 0
  /\ connectedHandlers = 0
  /\ pc = [p \in Procs |-> "idle"]
  /\ op = [p \in Procs |-> "none"]
  /\ arg = [p \in Procs |-> ""]
  /\ ret = [p \in Procs |-> NoRet]
  /\ calls = 0
  /\ nAct = [k \in Kinds |-> [i \in Ids |-> 0]]
  /\ nDeact = [k \in Kinds |-> [i \in Ids |-> 0]]

\* ------------------------------------------------------ network server
Uplinks == {1, 2}
KnownDevs == {"dev-1"}
NoDev == [FCntUp |-> 0, FCntDown |-> 0, LastSeen |-> 0]
NoMsg == [decodes |-> FALSE, mac |-> FALSE, dev |-> "", FCnt |-> 0,
          FPort |-> 0, tmpl |-> "none"]
\* a pointer result is the empty set when nil, else the set of its target
NsNoRet == [msg |-> {}, err |-> ErrNil]

\* the uplinks HandleUplink is called with: a payload that does not decode,
\* one without MAC payload, one of an unknown device, and those of the
\* known device. tmpl is the response template the broker attached: none,
\* one with a downlink option, or one whose option has a LoRaWAN
\* configuration.
Messages ==
  {[NoMsg EXCEPT !.dev = "dev-1"],
   [NoMsg EXCEPT !.dev = "dev-1", !.decodes = TRUE],
   [NoMsg EXCEPT !.dev = "dev-x", !.decodes = TRUE, !.mac = TRUE, !.FCnt = 1, !.FPort = 1]}
  \cup {[decodes |-> TRUE, mac |-> TRUE, dev |-> "dev-1", FCnt |-> c,
         FPort |-> f, tmpl |-> t] :
          c \in 1..MaxFCnt, f \in 1..2, t \in {"none", "option", "optionConf"}}

\* the DevAddr of an uplink's MAC payload
DevAddrOf(m) == IF m.dev = "dev-1" THEN 26 ELSE 27

\* the store holds the registered devices; no call is running
InitNS ==
  /\ devices = [d \in KnownDevs |-> NoDev]
  /\ updating = [d \in KnownDevs |-> Nil]
  /\ uplinkMark = 0
  /\ clock = 0
  /\ nsPc = [u \in Uplinks |-> "idle"]
  /\ nsMsg = [u \in Uplinks |-> NoMsg]
  /\ nsDev = [u \in Uplinks |-> NoDev]
  /\ nsErr = [u \in Uplinks |-> ErrNil]
  /\ nsRet = [u \in Uplinks |-> NsNoRet]
  /\ nsLogs = [u \in Uplinks |-> {}]
  /\ nGet = [u \in Uplinks |-> 0]
  /\ nSet = [u \in Uplinks |-> 0]
  /\ nsCalls = 0

\* ------------------------------------------------------- deduplicators
\* NewBroker builds two deduplicators with the same window
Instances == {"uplink", "activation"}
DedupKeys == {"k1", "k2"}
Snrs == 1..2
NoGroup == [members |-> <<>>, left |-> 0]

InitDedup ==
  /\ reports = <<>>
  /\ promises = <<>>
  /\ groups = [d \in Instances |-> [k \in DedupKeys |-> NoGroup]]
  /\ resolved = <<>>
  /\ forwarded = <<>>

\* ---------------------------------------------------------- broker.Init
\* the prefixes the network server may return, as strings; "bad" does not
\* parse
RespPrefixes == {"26/7", "27/7", "bad"}
\* the usage lists of a mapping
Usages == {{"world"}, {"local", "otaa"}, {"private"}}
\* the prefixes an announcement may hold
AnnouncedPrefixes == {[DevAddr |-> 26, Length |-> 7], [DevAddr |-> 26, Length |-> 8]}
NoCheck == "none"

\* a broker from NewBroker: no network server set, Init not called
InitComponent ==
  /\ initPc = "new"
  /\ initRet = NoCheck
  /\ status = "unknown"
  /\ nsCert = ""
  /\ nsConn = Nil
  /\ nsPrefixes = {}
  /\ announcedPrefixes = {}
  /\ todoPrefixes = {}
  /\ checkErr = NoCheck
  /\ initLogs = {}

\* ------------------------------------------------------------- api/pool
Targets == {"t1", "t2"}
Dialers == {1, 2}
NoDialer == [pc |-> "idle", target |-> "", entry |-> Nil, conn |-> Nil, err |-> ErrNil]

\* NewPool: no connections
InitPool ==
  /\ poolConns = [t \in Targets |-> Nil]
  /\ entries = <<>>
  /\ dialers = [c \in Dialers |-> NoDialer]
  /\ nPoolCalls = 0
  /\ poolPanic = FALSE

\* The router and the handler registry are the same code over disjoint
\* state; a run exercises one of them.
Init ==
  /\ registry \in Kinds
  /\ InitBroker
  /\ InitNS
  /\ InitDedup
  /\ InitComponent
  /\ InitPool

\* the network server or the deduplicators alone: the broker's registries
\* stay as constructed
InitOther ==
  /\ registry = "router"
  /\ InitBroker
  /\ InitNS
  /\ InitDedup
  /\ InitComponent
  /\ InitPool

\* a panic (send on a closed channel, close of a nil or closed channel)
\* ends the whole program
Running == \A q \in Procs : pc[q] # "panic"

\* m[id] = e for a partial map m
MapSet(m, id, e) == [i \in (DOMAIN m) \cup {id} |-> IF i = id THEN e ELSE m[i]]

\* ------------------------------------------------------------- routers
\* a goroutine, new or back from its previous call, calls o(id), one of
\* the router operations, which starts with getRouter(id):
\* b.routersLock.Lock()
getRouterLock(p, o, id) ==
  /\ Running
  /\ pc[p] \in {"idle", "done", "sent"}
  /\ calls < MaxCalls
  /\ registry = "router"
  /\ o \in RouterOps
  /\ routersLock = Nil
  /\ routersLock' = p
  /\ calls' = calls + 1
  /\ op' = [op EXCEPT ![p] = o]
  /\ arg' = [arg EXCEPT ![p] = id]
  /\ ret' = [ret EXCEPT ![p] = NoRet]
  /\ pc' = [pc EXCEPT ![p] = "inGetEntry"]
  /\ UNCHANGED <<routers, handlers, handlersLock, chans, connectedRouters,
                 connectedHandlers, registry, nAct, nDeact>>

\* faulty variant: the entry is inserted without the lookup
getRouterReplaces(p) ==
  /\ Running
  /\ pc[p] = "inGetEntry"
  /\ op[p] \in RouterOps
  /\ routers' = MapSet(routers, arg[p],
                       IF arg[p] \in DOMAIN routers
                         THEN [NewRouter EXCEPT !.mu = routers[arg[p]].mu]
                         ELSE NewRouter)
  /\ routersLock' = Nil
  /\ pc' = [pc EXCEPT ![p] = "lock"]
  /\ UNCHANGED <<handlers, handlersLock, chans, connectedRouters,
                 connectedHandlers, op, arg, ret, histVars>>

\* getRouter: look the entry up, insert a new one when absent, unlock
getRouter(p) ==
  /\ Running
  /\ pc[p] = "inGetEntry"
  /\ op[p] \in RouterOps
  /\ routers' = IF arg[p] \in DOMAIN routers THEN routers
                ELSE MapSet(routers, arg[p], NewRouter)
  /\ routersLock' = Nil
  /\ pc' = [pc EXCEPT ![p] = "lock"]
  /\ UNCHANGED <<handlers, handlersLock, chans, connectedRouters,
                 connectedHandlers, op, arg, ret, histVars>>

\* rtr.Lock()
rtrLock(p) ==
  /\ Running
  /\ pc[p] = "lock"
  /\ op[p] \in RouterOps
  /\ routers[arg[p]].mu = Nil
  /\ routers' = [routers EXCEPT ![arg[p]].mu = p]
  /\ pc' = [pc EXCEPT ![p] = "body"]
  /\ UNCHANGED <<routersLock, handlers, handlersLock, chans, connectedRouters,
                 connectedHandlers, op, arg, ret, histVars>>

\* faulty variant: every activation gets a channel of its own
ActivateRouterDownlinkOwnChannel(p) ==
  /\ Running
  /\ pc[p] = "body"
  /\ op[p] = "ActivateRouterDownlink"
  /\ LET downlink == Len(chans) + 1
     IN /\ chans' = Append(chans, "open")
        /\ routers' = [routers EXCEPT ![arg[p]] =
                         [@ EXCEPT !.downlink = downlink,
                                   !.downlinkConns = @ + 1,
                                   !.mu = Nil]]
        /\ ret' = [ret EXCEPT ![p] = [err |-> ErrNil, ch |-> downlink]]
  /\ connectedRouters' = connectedRouters + 1
  /\ nAct' = [nAct EXCEPT !["router"][arg[p]] = @ + 1]
  /\ pc' = [pc EXCEPT ![p] = "done"]
  /\ UNCHANGED <<routersLock, handlers, handlersLock,
                 connectedHandlers, op, arg, registry, calls, nDeact>>

\* ActivateRouterDownlink, under rtr's lock: make the channel when there is
\* none, count the consumer, return the channel, unlock
ActivateRouterDownlink(p) ==
  /\ Running
  /\ pc[p] = "body"
  /\ op[p] = "ActivateRouterDownlink"
  /\ LET rtr == routers[arg[p]]
         downlink == IF rtr.downlink = Nil THEN Len(chans) + 1 ELSE rtr.downlink
     IN /\ chans' = IF rtr.downlink = Nil THEN Append(chans, "open") ELSE chans
        /\ routers' = [routers EXCEPT ![arg[p]] =
                         [@ EXCEPT !.downlink = downlink,
                                   !.downlinkConns = @ + 1,
                                   !.mu = Nil]]
        /\ ret' = [ret EXCEPT ![p] = [err |-> ErrNil, ch |-> downlink]]
  /\ connectedRouters' = connectedRouters + 1
  /\ nAct' = [nAct EXCEPT !["router"][arg[p]] = @ + 1]
  /\ pc' = [pc EXCEPT ![p] = "done"]
  /\ UNCHANGED <<routersLock, handlers, handlersLock,
                 connectedHandlers, op, arg, registry, calls, nDeact>>

\* faulty variant: the decrement without the not-active check
DeactivateRouterDownlinkUnchecked(p) ==
  /\ Running
  /\ pc[p] = "body"
  /\ op[p] = "DeactivateRouterDownlink"
  /\ LET rtr == routers[arg[p]] IN
       IF rtr.downlinkConns = 1
         THEN IF rtr.downlink = Nil \/ chans[rtr.downlink] = "closed"
                THEN /\ pc' = [pc EXCEPT ![p] = "panic"]
                     /\ routers' = [routers EXCEPT ![arg[p]].downlinkConns = 0]
                     /\ UNCHANGED <<chans, ret, nDeact>>
                ELSE /\ chans' = [chans EXCEPT ![rtr.downlink] = "closed"]
                     /\ routers' = [routers EXCEPT ![arg[p]] =
                                      [@ EXCEPT !.downlinkConns = 0,
                                                !.downlink = Nil,
                                                !.mu = Nil]]
                     /\ ret' = [ret EXCEPT ![p] = NoRet]
                     /\ nDeact' = [nDeact EXCEPT !["router"][arg[p]] = @ + 1]
                     /\ pc' = [pc EXCEPT ![p] = "done"]
         ELSE /\ routers' = [routers EXCEPT ![arg[p]] =
                               [@ EXCEPT !.downlinkConns = @ - 1, !.mu = Nil]]
              /\ ret' = [ret EXCEPT ![p] = NoRet]
              /\ nDeact' = [nDeact EXCEPT !["router"][arg[p]] = @ + 1]
              /\ pc' = [pc EXCEPT ![p] = "done"]
              /\ UNCHANGED chans
  /\ connectedRouters' = connectedRouters - 1
  /\ UNCHANGED <<routersLock, handlers, handlersLock,
                 connectedHandlers, op, arg, registry, calls, nAct>>

\* faulty variant: the last consumer's channel is closed but not cleared
DeactivateRouterDownlinkKeepsChannel(p) ==
  /\ Running
  /\ pc[p] = "body"
  /\ op[p] = "DeactivateRouterDownlink"
  /\ LET rtr == routers[arg[p]] IN
       IF rtr.downlinkConns = 0
         THEN /\ ret' = [ret EXCEPT ![p] = [err |-> ErrInternal, ch |-> Nil]]
              /\ routers' = [routers EXCEPT ![arg[p]].mu = Nil]
              /\ pc' = [pc EXCEPT ![p] = "done"]
              /\ UNCHANGED <<connectedRouters, chans, nDeact>>
         ELSE /\ connectedRouters' = connectedRouters - 1
              /\ IF rtr.downlinkConns = 1
                   THEN IF rtr.downlink = Nil \/ chans[rtr.downlink] = "closed"
                          THEN /\ pc' = [pc EXCEPT ![p] = "panic"]
                               /\ routers' = [routers EXCEPT ![arg[p]].downlinkConns = 0]
                               /\ UNCHANGED <<chans, ret, nDeact>>
                          ELSE /\ chans' = [chans EXCEPT ![rtr.downlink] = "closed"]
                               /\ routers' = [routers EXCEPT ![arg[p]] =
                                                [@ EXCEPT !.downlinkConns = 0,
                                                          !.mu = Nil]]
                               /\ ret' = [ret EXCEPT ![p] = NoRet]
                               /\ nDeact' = [nDeact EXCEPT !["router"][arg[p]] = @ + 1]
                               /\ pc' = [pc EXCEPT ![p] = "done"]
                   ELSE /\ routers' = [routers EXCEPT ![arg[p]] =
                                         [@ EXCEPT !.downlinkConns = @ - 1, !.mu = Nil]]
                        /\ ret' = [ret EXCEPT ![p] = NoRet]
                        /\ nDeact' = [nDeact EXCEPT !["router"][arg[p]] = @ + 1]
                        /\ pc' = [pc EXCEPT ![p] = "done"]
                        /\ UNCHANGED chans
  /\ UNCHANGED <<routersLock, handlers, handlersLock,
                 connectedHandlers, op, arg, registry, calls, nAct>>

\* faulty variant: every Deactivate closes and clears the channel, not only the last
DeactivateRouterDownlinkClosesEarly(p) ==
  /\ Running
  /\ pc[p] = "body"
  /\ op[p] = "DeactivateRouterDownlink"
  /\ LET rtr == routers[arg[p]] IN
       IF rtr.downlinkConns = 0
         THEN /\ ret' = [ret EXCEPT ![p] = [err |-> ErrInternal, ch |-> Nil]]
              /\ routers' = [routers EXCEPT ![arg[p]].mu = Nil]
              /\ pc' = [pc EXCEPT ![p] = "done"]
              /\ UNCHANGED <<connectedRouters, chans, nDeact>>
         ELSE /\ connectedRouters' = connectedRouters - 1
              /\ IF rtr.downlink = Nil \/ chans[rtr.downlink] = "closed"
                   THEN /\ pc' = [pc EXCEPT ![p] = "panic"]
                        /\ routers' = [routers EXCEPT ![arg[p]].downlinkConns = @ - 1]
                        /\ UNCHANGED <<chans, ret, nDeact>>
                   ELSE /\ chans' = [chans EXCEPT ![rtr.downlink] = "closed"]
                        /\ routers' = [routers EXCEPT ![arg[p]] =
                                         [@ EXCEPT !.downlinkConns = @ - 1,
                                                   !.downlink = Nil,
                                                   !.mu = Nil]]
                        /\ ret' = [ret EXCEPT ![p] = NoRet]
                        /\ nDeact' = [nDeact EXCEPT !["router"][arg[p]] = @ + 1]
                        /\ pc' = [pc EXCEPT ![p] = "done"]
  /\ UNCHANGED <<routersLock, handlers, handlersLock,
                 connectedHandlers, op, arg, registry, calls, nAct>>

\* DeactivateRouterDownlink, under rtr's lock: the not-active error when the
\* count is 0; else decrement, close and clear the channel of the last
\* consumer, return nil; unlock. close() of a nil or of a closed channel
\* panics.
DeactivateRouterDownlink(p) ==
  /\ Running
  /\ pc[p] = "body"
  /\ op[p] = "DeactivateRouterDownlink"
  /\ LET rtr == routers[arg[p]] IN
       IF rtr.downlinkConns = 0
         THEN /\ ret' = [ret EXCEPT ![p] = [err |-> ErrInternal, ch |-> Nil]]
              /\ routers' = [routers EXCEPT ![arg[p]].mu = Nil]
              /\ pc' = [pc EXCEPT ![p] = "done"]
              /\ UNCHANGED <<connectedRouters, chans, nDeact>>
         ELSE /\ connectedRouters' = connectedRouters - 1
              /\ IF rtr.downlinkConns = 1
                   THEN IF rtr.downlink = Nil \/ chans[rtr.downlink] = "closed"
                          THEN /\ pc' = [pc EXCEPT ![p] = "panic"]
                               /\ routers' = [routers EXCEPT ![arg[p]].downlinkConns = 0]
                               /\ UNCHANGED <<chans, ret, nDeact>>
                          ELSE /\ chans' = [chans EXCEPT ![rtr.downlink] = "closed"]
                               /\ routers' = [routers EXCEPT ![arg[p]] =
                                                [@ EXCEPT !.downlinkConns = 0,
                                                          !.downlink = Nil,
                                                          !.mu = Nil]]
                               /\ ret' = [ret EXCEPT ![p] = NoRet]
                               /\ nDeact' = [nDeact EXCEPT !["router"][arg[p]] = @ + 1]
                               /\ pc' = [pc EXCEPT ![p] = "done"]
                   ELSE /\ routers' = [routers EXCEPT ![arg[p]] =
                                         [@ EXCEPT !.downlinkConns = @ - 1, !.mu = Nil]]
                        /\ ret' = [ret EXCEPT ![p] = NoRet]
                        /\ nDeact' = [nDeact EXCEPT !["router"][arg[p]] = @ + 1]
                        /\ pc' = [pc EXCEPT ![p] = "done"]
                        /\ UNCHANGED chans
  /\ UNCHANGED <<routersLock, handlers, handlersLock,
                 connectedHandlers, op, arg, registry, calls, nAct>>

\* faulty variant: getRouterDownlink waits, under the lock, for a consumer
getRouterDownlinkWaits(p) ==
  /\ Running
  /\ pc[p] = "body"
  /\ op[p] = "getRouterDownlink"
  /\ routers[arg[p]].downlink # Nil
  /\ ret' = [ret EXCEPT ![p] = [err |-> ErrNil, ch |-> routers[arg[p]].downlink]]
  /\ routers' = [routers EXCEPT ![arg[p]].mu = Nil]
  /\ pc' = [pc EXCEPT ![p] = "done"]
  /\ UNCHANGED <<routersLock, handlers, handlersLock, chans, connectedRouters,
                 connectedHandlers, op, arg, histVars>>

\* getRouterDownlink, under rtr's lock: the send end, or the not-active
\* error; unlock
getRouterDownlink(p) ==
  /\ Running
  /\ pc[p] = "body"
  /\ op[p] = "getRouterDownlink"
  /\ ret' = [ret EXCEPT ![p] =
               IF routers[arg[p]].downlink = Nil
                 THEN [err |-> ErrInternal, ch |-> Nil]
                 ELSE [err |-> ErrNil, ch |-> routers[arg[p]].downlink]]
  /\ routers' = [routers EXCEPT ![arg[p]].mu = Nil]
  /\ pc' = [pc EXCEPT ![p] = "done"]
  /\ UNCHANGED <<routersLock, handlers, handlersLock, chans, connectedRouters,
                 connectedHandlers, op, arg, histVars>>

\* ------------------------------------------------------------ handlers
\* a goroutine, new or back from its previous call, calls o(id), one of
\* the handler operations, which starts with getHandler(id):
\* b.handlersLock.Lock()
getHandlerLock(p, o, id) ==
  /\ Running
  /\ pc[p] \in {"idle", "done", "sent"}
  /\ calls < MaxCalls
  /\ registry = "handler"
  /\ o \in HandlerOps \cup ConnOps
  /\ handlersLock = Nil
  /\ handlersLock' = p
  /\ calls' = calls + 1
  /\ op' = [op EXCEPT ![p] = o]
  /\ arg' = [arg EXCEPT ![p] = id]
  /\ ret' = [ret EXCEPT ![p] = NoRet]
  /\ pc' = [pc EXCEPT ![p] = "inGetEntry"]
  /\ UNCHANGED <<handlers, routers, routersLock, chans, connectedRouters,
                 connectedHandlers, registry, nAct, nDeact>>

\* getHandler: look the entry up, insert a new one when absent, unlock
getHandler(p) ==
  /\ Running
  /\ pc[p] = "inGetEntry"
  /\ op[p] \in HandlerOps \cup ConnOps
  /\ handlers' = IF arg[p] \in DOMAIN handlers THEN handlers
                ELSE MapSet(handlers, arg[p], NewHandler)
  /\ handlersLock' = Nil
  /\ pc' = [pc EXCEPT ![p] = "lock"]
  /\ UNCHANGED <<routers, routersLock, chans, connectedHandlers,
                 connectedRouters, op, arg, ret, histVars>>

\* hdl.Lock()
hdlLock(p) ==
  /\ Running
  /\ pc[p] = "lock"
  /\ op[p] \in HandlerOps \cup ConnOps
  /\ handlers[arg[p]].mu = Nil
  /\ handlers' = [handlers EXCEPT ![arg[p]].mu = p]
  /\ pc' = [pc EXCEPT ![p] = "body"]
  /\ UNCHANGED <<handlersLock, routers, routersLock, chans, connectedHandlers,
                 connectedRouters, op, arg, ret, histVars>>

\* ActivateHandlerUplink, under hdl's lock: make the channel when there is
\* none, count the consumer, return the channel, unlock
ActivateHandlerUplink(p) ==
  /\ Running
  /\ pc[p] = "body"
  /\ op[p] = "ActivateHandlerUplink"
  /\ LET hdl == handlers[arg[p]]
         uplink == IF hdl.uplink = Nil THEN Len(chans) + 1 ELSE hdl.uplink
     IN /\ chans' = IF hdl.uplink = Nil THEN Append(chans, "open") ELSE chans
        /\ handlers' = [handlers EXCEPT ![arg[p]] =
                         [@ EXCEPT !.uplink = uplink,
                                   !.uplinkConns = @ + 1,
                                   !.mu = Nil]]
        /\ ret' = [ret EXCEPT ![p] = [err |-> ErrNil, ch |-> uplink]]
  /\ connectedHandlers' = connectedHandlers + 1
  /\ nAct' = [nAct EXCEPT !["handler"][arg[p]] = @ + 1]
  /\ pc' = [pc EXCEPT ![p] = "done"]
  /\ UNCHANGED <<handlersLock, routers, routersLock,
                 connectedRouters, op, arg, registry, calls, nDeact>>

\* DeactivateHandlerUplink, under hdl's lock: the not-active error when the
\* count is 0; else decrement, close and clear the channel of the last
\* consumer, return nil; unlock. close() of a nil or of a closed channel
\* panics.
DeactivateHandlerUplink(p) ==
  /\ Running
  /\ pc[p] = "body"
  /\ op[p] = "DeactivateHandlerUplink"
  /\ LET hdl == handlers[arg[p]] IN
       IF hdl.uplinkConns = 0
         THEN /\ ret' = [ret EXCEPT ![p] = [err |-> ErrInternal, ch |-> Nil]]
              /\ handlers' = [handlers EXCEPT ![arg[p]].mu = Nil]
              /\ pc' = [pc EXCEPT ![p] = "done"]
              /\ UNCHANGED <<connectedHandlers, chans, nDeact>>
         ELSE /\ connectedHandlers' = connectedHandlers - 1
              /\ IF hdl.uplinkConns = 1
                   THEN IF hdl.uplink = Nil \/ chans[hdl.uplink] = "closed"
                          THEN /\ pc' = [pc EXCEPT ![p] = "panic"]
                               /\ handlers' = [handlers EXCEPT ![arg[p]].uplinkConns = 0]
                               /\ UNCHANGED <<chans, ret, nDeact>>
                          ELSE /\ chans' = [chans EXCEPT ![hdl.uplink] = "closed"]
                               /\ handlers' = [handlers EXCEPT ![arg[p]] =
                                                [@ EXCEPT !.uplinkConns = 0,
                                                          !.uplink = Nil,
                                                          !.mu = Nil]]
                               /\ ret' = [ret EXCEPT ![p] = NoRet]
                               /\ nDeact' = [nDeact EXCEPT !["handler"][arg[p]] = @ + 1]
                               /\ pc' = [pc EXCEPT ![p] = "done"]
                   ELSE /\ handlers' = [handlers EXCEPT ![arg[p]] =
                                         [@ EXCEPT !.uplinkConns = @ - 1, !.mu = Nil]]
                        /\ ret' = [ret EXCEPT ![p] = NoRet]
                        /\ nDeact' = [nDeact EXCEPT !["handler"][arg[p]] = @ + 1]
                        /\ pc' = [pc EXCEPT ![p] = "done"]
                        /\ UNCHANGED chans
  /\ UNCHANGED <<handlersLock, routers, routersLock,
                 connectedRouters, op, arg, registry, calls, nAct>>

\* getHandlerUplink, under hdl's lock: the send end, or the not-active
\* error; unlock
getHandlerUplink(p) ==
  /\ Running
  /\ pc[p] = "body"
  /\ op[p] = "getHandlerUplink"
  /\ ret' = [ret EXCEPT ![p] =
               IF handlers[arg[p]].uplink = Nil
                 THEN [err |-> ErrInternal, ch |-> Nil]
                 ELSE [err |-> ErrNil, ch |-> handlers[arg[p]].uplink]]
  /\ handlers' = [handlers EXCEPT ![arg[p]].mu = Nil]
  /\ pc' = [pc EXCEPT ![p] = "done"]
  /\ UNCHANGED <<handlersLock, routers, routersLock, chans, connectedHandlers,
                 connectedRouters, op, arg, histVars>>

\* faulty variant: the cached connection is not looked at
getHandlerConnAlwaysDials(p, discoverOk, dialOk) ==
  /\ Running
  /\ pc[p] = "body"
  /\ op[p] = "getHandlerConn"
  /\ LET conn == 100 * p + calls
     IN IF ~discoverOk
          THEN /\ ret' = [ret EXCEPT ![p] = [err |-> "Discover", ch |-> Nil, conn |-> Nil,
                                             called |-> {"Discover"}]]
               /\ handlers' = [handlers EXCEPT ![arg[p]].mu = Nil]
          ELSE IF ~dialOk
            THEN /\ ret' = [ret EXCEPT ![p] = [err |-> "Dial", ch |-> Nil, conn |-> Nil,
                                               called |-> {"Discover", "Dial"}]]
                 /\ handlers' = [handlers EXCEPT ![arg[p]].mu = Nil]
            ELSE /\ ret' = [ret EXCEPT ![p] = [err |-> ErrNil, ch |-> Nil, conn |-> conn,
                                               called |-> {"Discover", "Dial"}]]
                 /\ handlers' = [handlers EXCEPT ![arg[p]].mu = Nil, ![arg[p]].conn = conn]
  /\ pc' = [pc EXCEPT ![p] = "done"]
  /\ UNCHANGED <<handlersLock, routers, routersLock, chans, connectedHandlers,
                 connectedRouters, op, arg, histVars>>

\* getHandlerConn, under hdl's lock: the cached connection when there is
\* one; else Discover (outcome discoverOk) and Dial (outcome dialOk), whose
\* errors are returned, and the connection dialed is cached; unlock.
\* ret.called are the collaborators this call called.
getHandlerConn(p, discoverOk, dialOk) ==
  /\ Running
  /\ pc[p] = "body"
  /\ op[p] = "getHandlerConn"
  /\ LET conn == 100 * p + calls
     IN IF handlers[arg[p]].conn # Nil
          THEN /\ ret' = [ret EXCEPT ![p] = [err |-> ErrNil, ch |-> Nil,
                                             conn |-> handlers[arg[p]].conn,
                                             called |-> {}]]
               /\ handlers' = [handlers EXCEPT ![arg[p]].mu = Nil]
          ELSE IF ~discoverOk
            THEN /\ ret' = [ret EXCEPT ![p] = [err |-> "Discover", ch |-> Nil, conn |-> Nil,
                                               called |-> {"Discover"}]]
                 /\ handlers' = [handlers EXCEPT ![arg[p]].mu = Nil]
            ELSE IF ~dialOk
              THEN /\ ret' = [ret EXCEPT ![p] = [err |-> "Dial", ch |-> Nil, conn |-> Nil,
                                                 called |-> {"Discover", "Dial"}]]
                   /\ handlers' = [handlers EXCEPT ![arg[p]].mu = Nil]
              ELSE /\ ret' = [ret EXCEPT ![p] = [err |-> ErrNil, ch |-> Nil, conn |-> conn,
                                                 called |-> {"Discover", "Dial"}]]
                   /\ handlers' = [handlers EXCEPT ![arg[p]].mu = Nil, ![arg[p]].conn = conn]
  /\ pc' = [pc EXCEPT ![p] = "done"]
  /\ UNCHANGED <<handlersLock, routers, routersLock, chans, connectedHandlers,
                 connectedRouters, op, arg, histVars>>

\* ------------------------------------------------------------- senders
\* HandleDownlink: the orchestrator forwards on the send end it obtained
\* from getRouterDownlink. A send on a closed channel panics; on an open
\* one it is taken by a consumer.
sendDownlink(p) ==
  /\ Running
  /\ pc[p] = "done"
  /\ op[p] = "getRouterDownlink"
  /\ ret[p].err = ErrNil
  /\ pc' = [pc EXCEPT ![p] = IF chans[ret[p].ch] = "closed" THEN "panic" ELSE "sent"]
  /\ UNCHANGED <<regVars, op, arg, ret, histVars>>

\* HandleUplink: the orchestrator forwards on the send end it obtained
\* from getHandlerUplink
sendUplink(p) ==
  /\ Running
  /\ pc[p] = "done"
  /\ op[p] = "getHandlerUplink"
  /\ ret[p].err = ErrNil
  /\ pc' = [pc EXCEPT ![p] = IF chans[ret[p].ch] = "closed" THEN "panic" ELSE "sent"]
  /\ UNCHANGED <<regVars, op, arg, ret, histVars>>

\* ------------------------------------------- networkServer.HandleUplink
\* a new call of HandleUplink(message)
HandleUplinkCall(u, m) ==
  /\ nsPc[u] \in {"idle", "returned"}
  /\ nsCalls < MaxUplinks
  /\ nsCalls' = nsCalls + 1
  /\ nsMsg' = [nsMsg EXCEPT ![u] = m]
  /\ nsDev' = [nsDev EXCEPT ![u] = NoDev]
  /\ nsErr' = [nsErr EXCEPT ![u] = ErrNil]
  /\ nsRet' = [nsRet EXCEPT ![u] = NsNoRet]
  /\ nsLogs' = [nsLogs EXCEPT ![u] = {}]
  /\ nGet' = [nGet EXCEPT ![u] = 0]
  /\ nSet' = [nSet EXCEPT ![u] = 0]
  /\ nsPc' = [nsPc EXCEPT ![u] = "decode"]
  /\ UNCHANGED <<devices, updating, uplinkMark, clock, brokerVars, dedupVars, initVars, poolVars>>

\* faulty variant: the MAC payload check is missing
HandleUplinkDecodeUnchecked(u) ==
  /\ nsPc[u] = "decode"
  /\ IF ~nsMsg[u].decodes
       THEN /\ nsRet' = [nsRet EXCEPT ![u] = [msg |-> {}, err |-> "Unmarshal"]]
            /\ nsPc' = [nsPc EXCEPT ![u] = "returned"]
            /\ UNCHANGED uplinkMark
       ELSE /\ uplinkMark' = uplinkMark + 1
            /\ nsPc' = [nsPc EXCEPT ![u] = "get"]
            /\ UNCHANGED nsRet
  /\ UNCHANGED <<nsErr, devices, updating, clock, nsMsg, nsDev, nsLogs, nGet, nSet,
                 nsCalls, brokerVars, dedupVars, initVars, poolVars>>

\* message.UnmarshalPayload() and the MAC payload check; both return
\* before any defer is registered
HandleUplinkDecode(u) ==
  /\ nsPc[u] = "decode"
  /\ IF ~nsMsg[u].decodes
       THEN /\ nsRet' = [nsRet EXCEPT ![u] = [msg |-> {}, err |-> "Unmarshal"]]
            /\ nsPc' = [nsPc EXCEPT ![u] = "returned"]
            /\ UNCHANGED uplinkMark
       ELSE IF ~nsMsg[u].mac
         THEN /\ nsRet' = [nsRet EXCEPT ![u] = [msg |-> {}, err |-> "InvalidArgument"]]
              /\ nsPc' = [nsPc EXCEPT ![u] = "returned"]
              /\ UNCHANGED uplinkMark
         ELSE /\ uplinkMark' = uplinkMark + 1
              /\ nsPc' = [nsPc EXCEPT ![u] = "get"]
              /\ UNCHANGED nsRet
  /\ UNCHANGED <<nsErr, devices, updating, clock, nsMsg, nsDev, nsLogs, nGet, nSet,
                 nsCalls, brokerVars, dedupVars, initVars, poolVars>>

\* faulty variant: the Set is deferred before the error return of the Get
HandleUplinkGetThenSet(u) ==
  /\ nsPc[u] = "get"
  /\ nGet' = [nGet EXCEPT ![u] = @ + 1]
  /\ IF nsMsg[u].dev \in DOMAIN devices
       THEN /\ nsDev' = [nsDev EXCEPT ![u] = devices[nsMsg[u].dev]]
            /\ nsPc' = [nsPc EXCEPT ![u] = "startUpdate"]
            /\ UNCHANGED <<nsErr, nsRet, nsLogs, devices, updating, nSet>>
       ELSE /\ nsRet' = [nsRet EXCEPT ![u] = [msg |-> {}, err |-> ErrNotFound]]
            /\ nsLogs' = [nsLogs EXCEPT ![u] = {"Warn"}]
            /\ nsPc' = [nsPc EXCEPT ![u] = "returned"]
            /\ nSet' = [nSet EXCEPT ![u] = @ + 1]
            /\ devices' = [d \in DOMAIN devices \cup {nsMsg[u].dev} |->
                             IF d \in DOMAIN devices THEN devices[d] ELSE NoDev]
            /\ updating' = [d \in DOMAIN devices \cup {nsMsg[u].dev} |->
                              IF d \in DOMAIN updating THEN updating[d] ELSE Nil]
            /\ UNCHANGED <<nsDev, nsErr>>
  /\ UNCHANGED <<uplinkMark, clock, nsMsg, nsCalls, brokerVars, dedupVars, initVars, poolVars>>

\* dev, err := n.devices.Get(AppEUI, DevEUI); on an error return nil, err
\* and the deferred log runs (the locals dev and err end with the call)
HandleUplinkGet(u) ==
  /\ nsPc[u] = "get"
  /\ nGet' = [nGet EXCEPT ![u] = @ + 1]
  /\ IF nsMsg[u].dev \in DOMAIN devices
       THEN /\ nsDev' = [nsDev EXCEPT ![u] = devices[nsMsg[u].dev]]
            /\ nsPc' = [nsPc EXCEPT ![u] = "startUpdate"]
            /\ UNCHANGED <<nsErr, nsRet, nsLogs>>
       ELSE /\ nsRet' = [nsRet EXCEPT ![u] = [msg |-> {}, err |-> ErrNotFound]]
            /\ nsLogs' = [nsLogs EXCEPT ![u] = {"Warn"}]
            /\ nsPc' = [nsPc EXCEPT ![u] = "returned"]
            /\ UNCHANGED <<nsDev, nsErr>>
  /\ UNCHANGED <<devices, updating, uplinkMark, clock, nsMsg, nSet, nsCalls,
                 brokerVars, dedupVars, initVars, poolVars>>

\* dev.StartUpdate(): the device's update is this call's until its Set
HandleUplinkStartUpdate(u) ==
  /\ nsPc[u] = "startUpdate"
  /\ updating[nsMsg[u].dev] = Nil
  /\ updating' = [updating EXCEPT ![nsMsg[u].dev] = u]
  /\ nsPc' = [nsPc EXCEPT ![u] = "process"]
  /\ UNCHANGED <<devices, uplinkMark, clock, nsMsg, nsDev, nsErr, nsRet,
                 nsLogs, nGet, nSet, nsCalls, brokerVars, dedupVars, initVars, poolVars>>

\* the PHYPayload's MarshalBinary of the downlink MAC payload
MarshalBinary(mac) == <<mac.DevAddr, mac.FCnt % 65536, mac.FPort>>

\* faulty variant: the Set is not deferred, a failing step returns before it
HandleUplinkProcessNoDefer(u, macOk, incr, marshalOk) ==
  /\ nsPc[u] = "process"
  /\ clock' = clock + 1
  /\ LET m == nsMsg[u]
         dev == nsDev[u]
         mac == [FPort |-> m.FPort, DevAddr |-> DevAddrOf(m), FCnt |-> dev.FCntDown]
         tmpl == [mac |-> mac,
                  option |-> m.tmpl # "none",
                  confFCnt |-> IF m.tmpl = "optionConf" THEN dev.FCntDown ELSE -1,
                  Payload |-> <<>>]
         er == IF ~macOk THEN "MAC" ELSE IF ~marshalOk THEN "Marshal" ELSE ErrNil
     IN /\ nsDev' = [nsDev EXCEPT ![u] =
                       IF er # ErrNil THEN NoDev
                       ELSE [FCntUp |-> m.FCnt,
                             FCntDown |-> dev.FCntDown + incr,
                             LastSeen |-> clock']]
        /\ nsErr' = [nsErr EXCEPT ![u] = IF er # ErrNil THEN ErrNil ELSE er]
        /\ nsRet' = [nsRet EXCEPT ![u] =
                       IF er # ErrNil THEN [msg |-> {}, err |-> er]
                       ELSE [msg |-> {[uplink |-> m,
                                       ResponseTemplate |->
                                         IF tmpl.option
                                           THEN {[tmpl EXCEPT !.Payload = MarshalBinary(mac)]}
                                           ELSE {}]},
                             err |-> ErrNil]]
        /\ nsPc' = [nsPc EXCEPT ![u] = IF er # ErrNil THEN "returned" ELSE "set"]
        /\ updating' = [updating EXCEPT ![m.dev] = IF er # ErrNil THEN Nil ELSE @]
  /\ UNCHANGED <<devices, uplinkMark, nsMsg, nsLogs, nGet, nSet,
                 nsCalls, brokerVars, dedupVars, initVars, poolVars>>

\* faulty variant: the template is filled after the MAC processing
HandleUplinkProcessLateTemplate(u, macOk, incr, marshalOk) ==
  /\ nsPc[u] = "process"
  /\ clock' = clock + 1
  /\ LET m == nsMsg[u]
         dev == nsDev[u]
         mac == [FPort |-> m.FPort, DevAddr |-> DevAddrOf(m), FCnt |-> dev.FCntDown + incr]
         tmpl == [mac |-> mac,
                  option |-> m.tmpl # "none",
                  confFCnt |-> IF m.tmpl = "optionConf" THEN dev.FCntDown + incr ELSE -1,
                  Payload |-> <<>>]
         er == IF ~macOk THEN "MAC" ELSE IF ~marshalOk THEN "Marshal" ELSE ErrNil
     IN /\ nsDev' = [nsDev EXCEPT ![u] =
                       [FCntUp |-> m.FCnt,
                        FCntDown |-> dev.FCntDown + incr,
                        LastSeen |-> clock']]
        /\ nsErr' = [nsErr EXCEPT ![u] = er]
        /\ nsRet' = [nsRet EXCEPT ![u] =
                       IF er # ErrNil THEN [msg |-> {}, err |-> er]
                       ELSE [msg |-> {[uplink |-> m,
                                       ResponseTemplate |->
                                         IF tmpl.option
                                           THEN {[tmpl EXCEPT !.Payload = MarshalBinary(mac)]}
                                           ELSE {}]},
                             err |-> ErrNil]]
  /\ nsPc' = [nsPc EXCEPT ![u] = "set"]
  /\ UNCHANGED <<devices, updating, uplinkMark, nsMsg, nsLogs, nGet, nSet,
                 nsCalls, brokerVars, dedupVars, initVars, poolVars>>

\* faulty variant: a template without downlink option is returned, not unset
HandleUplinkProcessKeepsTemplate(u, macOk, incr, marshalOk) ==
  /\ nsPc[u] = "process"
  /\ clock' = clock + 1
  /\ LET m == nsMsg[u]
         dev == nsDev[u]
         mac == [FPort |-> m.FPort, DevAddr |-> DevAddrOf(m), FCnt |-> dev.FCntDown]
         tmpl == [mac |-> mac,
                  option |-> m.tmpl # "none",
                  confFCnt |-> IF m.tmpl = "optionConf" THEN dev.FCntDown ELSE -1,
                  Payload |-> <<>>]
         er == IF ~macOk THEN "MAC" ELSE IF ~marshalOk THEN "Marshal" ELSE ErrNil
     IN /\ nsDev' = [nsDev EXCEPT ![u] =
                       [FCntUp |-> m.FCnt,
                        FCntDown |-> dev.FCntDown + incr,
                        LastSeen |-> clock']]
        /\ nsErr' = [nsErr EXCEPT ![u] = er]
        /\ nsRet' = [nsRet EXCEPT ![u] =
                       IF er # ErrNil THEN [msg |-> {}, err |-> er]
                       ELSE [msg |-> {[uplink |-> m,
                                       ResponseTemplate |->
                                         {[tmpl EXCEPT !.Payload = MarshalBinary(mac)]}]},
                             err |-> ErrNil]]
  /\ nsPc' = [nsPc EXCEPT ![u] = "set"]
  /\ UNCHANGED <<devices, updating, uplinkMark, nsMsg, nsLogs, nGet, nSet,
                 nsCalls, brokerVars, dedupVars, initVars, poolVars>>

\* lines 58-88: FCntUp and LastSeen on dev, the response template, then
\* handleUplinkMAC (outcome macOk, and incr added to dev.FCntDown), then the
\* marshalling (outcome marshalOk), then the unset of a template without
\* downlink option; the return statement fixes the returned values
HandleUplinkProcess(u, macOk, incr, marshalOk) ==
  /\ nsPc[u] = "process"
  /\ clock' = clock + 1
  /\ LET m == nsMsg[u]
         dev == nsDev[u]
         mac == [FPort |-> m.FPort, DevAddr |-> DevAddrOf(m), FCnt |-> dev.FCntDown]
         tmpl == [mac |-> mac,
                  option |-> m.tmpl # "none",
                  confFCnt |-> IF m.tmpl = "optionConf" THEN dev.FCntDown ELSE -1,
                  Payload |-> <<>>]
         er == IF ~macOk THEN "MAC" ELSE IF ~marshalOk THEN "Marshal" ELSE ErrNil
     IN /\ nsDev' = [nsDev EXCEPT ![u] =
                       [FCntUp |-> m.FCnt,
                        FCntDown |-> dev.FCntDown + incr,
                        LastSeen |-> clock']]
        /\ nsErr' = [nsErr EXCEPT ![u] = er]
        /\ nsRet' = [nsRet EXCEPT ![u] =
                       IF er # ErrNil THEN [msg |-> {}, err |-> er]
                       ELSE [msg |-> {[uplink |-> m,
                                       ResponseTemplate |->
                                         IF tmpl.option
                                           THEN {[tmpl EXCEPT !.Payload = MarshalBinary(mac)]}
                                           ELSE {}]},
                             err |-> ErrNil]]
  /\ nsPc' = [nsPc EXCEPT ![u] = "set"]
  /\ UNCHANGED <<devices, updating, uplinkMark, nsMsg, nsLogs, nGet, nSet,
                 nsCalls, brokerVars, dedupVars, initVars, poolVars>>

\* faulty variant: a failed Set replaces the error being returned
HandleUplinkSetOverwrites(u, setOk) ==
  /\ nsPc[u] = "set"
  /\ nSet' = [nSet EXCEPT ![u] = @ + 1]
  /\ devices' = IF setOk THEN [devices EXCEPT ![nsMsg[u].dev] = nsDev[u]] ELSE devices
  /\ updating' = [updating EXCEPT ![nsMsg[u].dev] = Nil]
  /\ LET setErr == IF setOk THEN ErrNil ELSE "Store"
         er == IF setOk THEN nsErr[u] ELSE setErr
     IN /\ nsLogs' = [nsLogs EXCEPT ![u] =
                        (IF setOk THEN {} ELSE {"Error"})
                        \cup (IF er # ErrNil THEN {"Warn"} ELSE {"Info"})]
        /\ nsRet' = [nsRet EXCEPT ![u] =
                       IF setOk THEN @ ELSE [msg |-> {}, err |-> setErr]]
  /\ nsErr' = [nsErr EXCEPT ![u] = ErrNil]
  /\ nsDev' = [nsDev EXCEPT ![u] = NoDev]
  /\ nsPc' = [nsPc EXCEPT ![u] = "returned"]
  /\ UNCHANGED <<uplinkMark, clock, nsMsg, nGet, nsCalls, brokerVars, dedupVars, initVars, poolVars>>

\* the deferred functions: setErr := n.devices.Set(dev) (outcome setOk),
\* logged when it failed and assigned to the local err when that is nil;
\* then the log of the call. The returned values are those of the return
\* statement; the locals dev and err end with the call.
HandleUplinkSet(u, setOk) ==
  /\ nsPc[u] = "set"
  /\ nSet' = [nSet EXCEPT ![u] = @ + 1]
  /\ devices' = IF setOk THEN [devices EXCEPT ![nsMsg[u].dev] = nsDev[u]] ELSE devices
  /\ updating' = [updating EXCEPT ![nsMsg[u].dev] = Nil]
  /\ LET setErr == IF setOk THEN ErrNil ELSE "Store"
         er == IF nsErr[u] = ErrNil THEN setErr ELSE nsErr[u]
     IN nsLogs' = [nsLogs EXCEPT ![u] =
                     (IF setOk THEN {} ELSE {"Error"})
                     \cup (IF er # ErrNil THEN {"Warn"} ELSE {"Info"})]
  /\ nsErr' = [nsErr EXCEPT ![u] = ErrNil]
  /\ nsDev' = [nsDev EXCEPT ![u] = NoDev]
  /\ nsPc' = [nsPc EXCEPT ![u] = "returned"]
  /\ UNCHANGED <<uplinkMark, clock, nsMsg, nsRet, nGet, nsCalls, brokerVars, dedupVars, initVars, poolVars>>

NextNS ==
  \/ \E u \in Uplinks, m \in Messages : HandleUplinkCall(u, m)
  \/ \E u \in Uplinks : HandleUplinkDecode(u)
  \/ \E u \in Uplinks : HandleUplinkGet(u)
  \/ \E u \in Uplinks : HandleUplinkStartUpdate(u)
  \/ \E u \in Uplinks, macOk \in BOOLEAN, incr \in 0..1, marshalOk \in BOOLEAN :
       HandleUplinkProcess(u, macOk, incr, marshalOk)
  \/ \E u \in Uplinks, setOk \in BOOLEAN : HandleUplinkSet(u, setOk)

SpecNS == InitOther /\ [][NextNS]_vars

\* ---------------------------------------------------------- Deduplicator
Range(q) == {q[i] : i \in 1..Len(q)}

\* the winner of a group: the member with the best link quality, the first
\* received among equals
Winner(members) ==
  LET best == CHOOSE q \in {reports[c].snr : c \in Range(members)} :
                \A c \in Range(members) : reports[c].snr <= q
      i == CHOOSE j \in 1..Len(members) :
             /\ reports[members[j]].snr = best
             /\ \A h \in 1..(j - 1) : reports[members[h]].snr # best
  IN members[i]

\* faulty variant: a report whose key has resolved before gets that resolution
DeduplicateJoinsResolved(d, k, q) ==
  /\ Len(reports) < MaxReports
  /\ LET c == Len(reports) + 1
         old == {i \in 1..Len(resolved) : resolved[i].inst = d /\ resolved[i].key = k}
     IN /\ reports' = Append(reports, [inst |-> d, key |-> k, snr |-> q])
        /\ IF groups[d][k].members = <<>> /\ old # {}
             THEN /\ promises' = Append(promises, resolved[CHOOSE i \in old : TRUE].winner)
                  /\ UNCHANGED groups
             ELSE /\ promises' = Append(promises, 0)
                  /\ groups' = [groups EXCEPT ![d][k] =
                                  IF @.members = <<>>
                                    THEN [members |-> <<c>>, left |-> Window]
                                    ELSE [@ EXCEPT !.members = Append(@, c)]]
  /\ UNCHANGED <<resolved, forwarded, brokerVars, nsVars, initVars, poolVars>>

\* Deduplicate(key, report) on instance d: the first report of a key opens a
\* group with the whole window left, a later one joins the open group; the
\* caller gets a pending promise
Deduplicate(d, k, q) ==
  /\ Len(reports) < MaxReports
  /\ LET c == Len(reports) + 1
     IN /\ reports' = Append(reports, [inst |-> d, key |-> k, snr |-> q])
        /\ promises' = Append(promises, 0)
        /\ groups' = [groups EXCEPT ![d][k] =
                        IF @.members = <<>>
                          THEN [members |-> <<c>>, left |-> Window]
                          ELSE [@ EXCEPT !.members = Append(@, c)]]
  /\ UNCHANGED <<resolved, forwarded, brokerVars, nsVars, initVars, poolVars>>

\* time passes for the open groups; a timer whose deadline is reached fires
\* before time passes further
Tick ==
  /\ \E d \in Instances, k \in DedupKeys : groups[d][k].members # <<>>
  /\ \A d \in Instances, k \in DedupKeys :
       groups[d][k].members # <<>> => groups[d][k].left > 0
  /\ groups' = [d \in Instances |-> [k \in DedupKeys |->
                  IF groups[d][k].members # <<>>
                    THEN [groups[d][k] EXCEPT !.left = @ - 1]
                    ELSE groups[d][k]]]
  /\ UNCHANGED <<reports, promises, resolved, forwarded, brokerVars, nsVars, initVars, poolVars>>

\* faulty variant: only the promise of the group's first caller is resolved
ResolveFirstOnly(d, k) ==
  /\ groups[d][k].members # <<>>
  /\ groups[d][k].left = 0
  /\ LET g == groups[d][k]
         w == Winner(g.members)
     IN /\ promises' = [promises EXCEPT ![g.members[1]] = w]
        /\ resolved' = Append(resolved, [inst |-> d, key |-> k,
                                         members |-> g.members, winner |-> w])
        /\ forwarded' = Append(forwarded, [inst |-> d, key |-> k, report |-> w])
  /\ groups' = [groups EXCEPT ![d][k] = NoGroup]
  /\ UNCHANGED <<reports, brokerVars, nsVars, initVars, poolVars>>

\* the deadline of a group elapsed: the winner resolves the promise of
\* every member, the orchestrator forwards it, the group is removed
Resolve(d, k) ==
  /\ groups[d][k].members # <<>>
  /\ groups[d][k].left = 0
  /\ LET g == groups[d][k]
         w == Winner(g.members)
     IN /\ promises' = [c \in 1..Len(promises) |->
                          IF c \in Range(g.members) THEN w ELSE promises[c]]
        /\ resolved' = Append(resolved, [inst |-> d, key |-> k,
                                         members |-> g.members, winner |-> w])
        /\ forwarded' = Append(forwarded, [inst |-> d, key |-> k, report |-> w])
  /\ groups' = [groups EXCEPT ![d][k] = NoGroup]
  /\ UNCHANGED <<reports, brokerVars, nsVars, initVars, poolVars>>

NextDedup ==
  \/ \E d \in Instances, k \in DedupKeys, q \in Snrs : Deduplicate(d, k, q)
  \/ Tick
  \/ \E d \in Instances, k \in DedupKeys : Resolve(d, k)

SpecDedup == InitOther /\ [][NextDedup]_vars

\* ----------------------------------------------------------- broker.Init
otherVars == <<brokerVars, nsVars, dedupVars>>

\* types.ParseDevAddrPrefix: whether a string parses (err == nil), and the
\* prefix it parses to
ParsesDevAddrPrefix(str) == str \in {"26/7", "27/7"}
ParseDevAddrPrefix(str) ==
  IF str = "26/7" THEN [DevAddr |-> 26, Length |-> 7]
                  ELSE [DevAddr |-> 27, Length |-> 7]

\* SetNetworkServer(addr, cert, token), before Init
SetNetworkServer(cert) ==
  /\ initPc = "new"
  /\ nsCert' = cert
  /\ initPc' = "configured"
  /\ UNCHANGED <<initRet, status, nsConn, nsPrefixes, announcedPrefixes,
                 todoPrefixes, checkErr, initLogs, otherVars, poolVars>>

\* Init, lines 111-117: UpdateTokenKey, whose error is returned
InitUpdateTokenKey(ok) ==
  /\ initPc \in {"new", "configured"}
  /\ IF ok THEN initPc' = "announce" /\ UNCHANGED initRet
           ELSE initPc' = "returned" /\ initRet' = "UpdateTokenKey"
  /\ UNCHANGED <<status, nsCert, nsConn, nsPrefixes, announcedPrefixes,
                 todoPrefixes, checkErr, initLogs, otherVars, poolVars>>

\* Init, lines 118-122: Announce, whose error is returned
InitAnnounce(ok) ==
  /\ initPc = "announce"
  /\ IF ok THEN initPc' = "dial" /\ UNCHANGED initRet
           ELSE initPc' = "returned" /\ initRet' = "Announce"
  /\ UNCHANGED <<status, nsCert, nsConn, nsPrefixes, announcedPrefixes,
                 todoPrefixes, checkErr, initLogs, otherVars, poolVars>>

\* Init, lines 123-133: api.Dial or api.DialWithCert, whose error is
\* returned; the connection becomes b.nsConn
InitDial(ok) ==
  /\ initPc = "dial"
  /\ IF ok THEN initPc' = "getPrefixes" /\ nsConn' = 1 /\ UNCHANGED initRet
           ELSE /\ initPc' = "returned"
                /\ initRet' = IF nsCert = "" THEN "Dial" ELSE "DialWithCert"
                /\ UNCHANGED nsConn
  /\ UNCHANGED <<status, nsCert, nsPrefixes, announcedPrefixes,
                 todoPrefixes, checkErr, initLogs, otherVars, poolVars>>

\* checkPrefixAnnouncements, lines 72-84: GetPrefixes, whose error is
\* returned wrapped; the mappings that parse fill nsPrefixes
checkPrefixAnnouncementsGetPrefixes(ok, resp) ==
  /\ initPc = "getPrefixes"
  /\ IF ok
       THEN /\ nsPrefixes' = {<<ParseDevAddrPrefix(str), resp[str]>> :
                                str \in {x \in DOMAIN resp : ParsesDevAddrPrefix(x)}}
            /\ initPc' = "discover"
            /\ UNCHANGED checkErr
       ELSE /\ checkErr' = "GetPrefixes"
            /\ initPc' = "status"
            /\ UNCHANGED nsPrefixes
  /\ UNCHANGED <<initRet, status, nsCert, nsConn, announcedPrefixes,
                 todoPrefixes, initLogs, otherVars, poolVars>>

\* checkPrefixAnnouncements, lines 87-91: Discover, whose error is returned
checkPrefixAnnouncementsDiscover(ok, announced) ==
  /\ initPc = "discover"
  /\ IF ok
       THEN /\ announcedPrefixes' = announced
            /\ todoPrefixes' = nsPrefixes
            /\ initPc' = "compare"
            /\ UNCHANGED checkErr
       ELSE /\ checkErr' = "Discover"
            /\ initPc' = "status"
            /\ UNCHANGED <<announcedPrefixes, todoPrefixes>>
  /\ UNCHANGED <<initRet, status, nsCert, nsConn, nsPrefixes, initLogs, otherVars, poolVars>>

\* checkPrefixAnnouncements, lines 93-107: one round of the range loop over
\* nsPrefixes (in any order), or the return nil after the last
checkPrefixAnnouncementsCompare ==
  /\ initPc = "compare"
  /\ IF todoPrefixes = {}
       THEN /\ checkErr' = ErrNil
            /\ initPc' = "status"
            /\ UNCHANGED <<todoPrefixes, initLogs>>
       ELSE \E e \in todoPrefixes :
              /\ todoPrefixes' = todoPrefixes \ {e}
              /\ initLogs' =
                   IF "world" \notin e[2] /\ "local" \notin e[2] THEN initLogs
                   ELSE IF \E a \in announcedPrefixes :
                             e[1].DevAddr = a.DevAddr /\ e[1].Length = a.Length
                     THEN initLogs \cup {<<"Info", e[1]>>}
                     ELSE initLogs \cup {<<"Warn", e[1]>>}
              /\ UNCHANGED <<initPc, checkErr>>
  /\ UNCHANGED <<initRet, status, nsCert, nsConn, nsPrefixes, announcedPrefixes,
                 otherVars, poolVars>>

\* faulty variant: the error of checkPrefixAnnouncements is returned
InitSetStatusChecked ==
  /\ initPc = "status"
  /\ IF checkErr = ErrNil
       THEN status' = "healthy" /\ initRet' = ErrNil
       ELSE initRet' = checkErr /\ UNCHANGED status
  /\ initPc' = "returned"
  /\ UNCHANGED <<nsCert, nsConn, nsPrefixes, announcedPrefixes, todoPrefixes,
                 checkErr, initLogs, otherVars, poolVars>>

\* Init, lines 134-139: the result of checkPrefixAnnouncements is dropped,
\* the status is set to healthy and nil is returned
InitSetStatus ==
  /\ initPc = "status"
  /\ status' = "healthy"
  /\ initRet' = ErrNil
  /\ initPc' = "returned"
  /\ UNCHANGED <<nsCert, nsConn, nsPrefixes, announcedPrefixes, todoPrefixes,
                 checkErr, initLogs, otherVars, poolVars>>

NextInit ==
  \/ \E cert \in {"", "cert"} : SetNetworkServer(cert)
  \/ \E ok \in BOOLEAN : InitUpdateTokenKey(ok)
  \/ \E ok \in BOOLEAN : InitAnnounce(ok)
  \/ \E ok \in BOOLEAN : InitDial(ok)
  \/ \E ok \in BOOLEAN, S \in SUBSET RespPrefixes : \E resp \in [S -> Usages] :
       checkPrefixAnnouncementsGetPrefixes(ok, resp)
  \/ \E ok \in BOOLEAN, announced \in SUBSET AnnouncedPrefixes :
       checkPrefixAnnouncementsDiscover(ok, announced)
  \/ checkPrefixAnnouncementsCompare
  \/ InitSetStatus

SpecInit == InitOther /\ [][NextInit]_vars

Next ==
  \/ \E p \in Procs, o \in RouterOps, id \in Ids : getRouterLock(p, o, id) /\ UNCHANGED <<nsVars, dedupVars, initVars, poolVars>>
  \/ \E p \in Procs : getRouter(p) /\ UNCHANGED <<nsVars, dedupVars, initVars, poolVars>>
  \/ \E p \in Procs : rtrLock(p) /\ UNCHANGED <<nsVars, dedupVars, initVars, poolVars>>
  \/ \E p \in Procs : ActivateRouterDownlink(p) /\ UNCHANGED <<nsVars, dedupVars, initVars, poolVars>>
  \/ \E p \in Procs : DeactivateRouterDownlink(p) /\ UNCHANGED <<nsVars, dedupVars, initVars, poolVars>>
  \/ \E p \in Procs : getRouterDownlink(p) /\ UNCHANGED <<nsVars, dedupVars, initVars, poolVars>>
  \/ \E p \in Procs, o \in HandlerOps, id \in Ids : getHandlerLock(p, o, id) /\ UNCHANGED <<nsVars, dedupVars, initVars, poolVars>>
  \/ \E p \in Procs : getHandler(p) /\ UNCHANGED <<nsVars, dedupVars, initVars, poolVars>>
  \/ \E p \in Procs : hdlLock(p) /\ UNCHANGED <<nsVars, dedupVars, initVars, poolVars>>
  \/ \E p \in Procs : ActivateHandlerUplink(p) /\ UNCHANGED <<nsVars, dedupVars, initVars, poolVars>>
  \/ \E p \in Procs : DeactivateHandlerUplink(p) /\ UNCHANGED <<nsVars, dedupVars, initVars, poolVars>>
  \/ \E p \in Procs : getHandlerUplink(p) /\ UNCHANGED <<nsVars, dedupVars, initVars, poolVars>>
  \/ \E p \in Procs : sendDownlink(p) /\ UNCHANGED <<nsVars, dedupVars, initVars, poolVars>>
  \/ \E p \in Procs : sendUplink(p) /\ UNCHANGED <<nsVars, dedupVars, initVars, poolVars>>

Spec == Init /\ [][Next]_vars

\* the steps of goroutine p inside a call it has started
StepInCall(p) ==
  \/ getRouter(p) \/ rtrLock(p)
  \/ ActivateRouterDownlink(p) \/ DeactivateRouterDownlink(p) \/ getRouterDownlink(p)
  \/ getHandler(p) \/ hdlLock(p)
  \/ ActivateHandlerUplink(p) \/ DeactivateHandlerUplink(p) \/ getHandlerUplink(p)

\* the calls of the registry alone (the sends of the orchestrator take no
\* lock)
NextRegistry ==
  \/ \E p \in Procs, o \in RouterOps, id \in Ids : getRouterLock(p, o, id) /\ UNCHANGED <<nsVars, dedupVars, initVars, poolVars>>
  \/ \E p \in Procs : getRouter(p) /\ UNCHANGED <<nsVars, dedupVars, initVars, poolVars>>
  \/ \E p \in Procs : rtrLock(p) /\ UNCHANGED <<nsVars, dedupVars, initVars, poolVars>>
  \/ \E p \in Procs : ActivateRouterDownlink(p) /\ UNCHANGED <<nsVars, dedupVars, initVars, poolVars>>
  \/ \E p \in Procs : DeactivateRouterDownlink(p) /\ UNCHANGED <<nsVars, dedupVars, initVars, poolVars>>
  \/ \E p \in Procs : getRouterDownlink(p) /\ UNCHANGED <<nsVars, dedupVars, initVars, poolVars>>
  \/ \E p \in Procs, o \in HandlerOps, id \in Ids : getHandlerLock(p, o, id) /\ UNCHANGED <<nsVars, dedupVars, initVars, poolVars>>
  \/ \E p \in Procs : getHandler(p) /\ UNCHANGED <<nsVars, dedupVars, initVars, poolVars>>
  \/ \E p \in Procs : hdlLock(p) /\ UNCHANGED <<nsVars, dedupVars, initVars, poolVars>>
  \/ \E p \in Procs : ActivateHandlerUplink(p) /\ UNCHANGED <<nsVars, dedupVars, initVars, poolVars>>
  \/ \E p \in Procs : DeactivateHandlerUplink(p) /\ UNCHANGED <<nsVars, dedupVars, initVars, poolVars>>
  \/ \E p \in Procs : getHandlerUplink(p) /\ UNCHANGED <<nsVars, dedupVars, initVars, poolVars>>

\* the Go scheduler runs every goroutine that can run: a goroutine inside a
\* call whose next step stays possible takes it
FairSpec == Init /\ [][NextRegistry]_vars /\ \A p \in Procs : WF_vars(StepInCall(p) /\ UNCHANGED <<nsVars, dedupVars, initVars, poolVars>>)

\* the callers of getHandlerConn alone, on the handler registry
InitConn ==
  /\ registry = "handler"
  /\ InitBroker
  /\ InitNS
  /\ InitDedup
  /\ InitComponent
  /\ InitPool

NextConn ==
  \/ \E p \in Procs, o \in ConnOps, id \in Ids : getHandlerLock(p, o, id) /\ UNCHANGED <<nsVars, dedupVars, initVars, poolVars>>
  \/ \E p \in Procs : getHandler(p) /\ UNCHANGED <<nsVars, dedupVars, initVars, poolVars>>
  \/ \E p \in Procs : hdlLock(p) /\ UNCHANGED <<nsVars, dedupVars, initVars, poolVars>>
  \/ \E p \in Procs, discoverOk \in BOOLEAN, dialOk \in BOOLEAN :
       getHandlerConn(p, discoverOk, dialOk) /\ UNCHANGED <<nsVars, dedupVars, initVars, poolVars>>

SpecConn == InitConn /\ [][NextConn]_vars

\* ------------------------------------------------- views for the claims
Keys(k) == IF k = "router" THEN DOMAIN routers ELSE DOMAIN handlers
Conns(k, id) == IF k = "router" THEN routers[id].downlinkConns ELSE handlers[id].uplinkConns
Chan(k, id) == IF k = "router" THEN routers[id].downlink ELSE handlers[id].uplink
Mu(k, id) == IF k = "router" THEN routers[id].mu ELSE handlers[id].mu
ActOp(k) == IF k = "router" THEN "ActivateRouterDownlink" ELSE "ActivateHandlerUplink"
DeactOp(k) == IF k = "router" THEN "DeactivateRouterDownlink" ELSE "DeactivateHandlerUplink"
GetOp(k) == IF k = "router" THEN "getRouterDownlink" ELSE "getHandlerUplink"
\* Activate calls minus Deactivate calls that returned without error
Active(k, id) == nAct[k][id] - nDeact[k][id]

\* C1: whenever an entry's lock is free, its channel is non-nil if and only
\* if its consumer count is greater than 0 (routers and handlers alike).
ChannelIffConsumers ==
  \A k \in Kinds : \A id \in Keys(k) :
    Mu(k, id) = Nil => ((Chan(k, id) # Nil) <=> (Conns(k, id) > 0))

\* an unlocked router entry that still has a consumer after another one left
ChannelIffConsumersWitness ==
  \E id \in DOMAIN routers :
    /\ routers[id].mu = Nil
    /\ routers[id].downlinkConns = 1
    /\ routers[id].downlink # Nil
    /\ nDeact["router"][id] = 1

\* C2: after k Activate and k-1 Deactivate calls the channel is open and
\* getDeliveryEnd returns the send end of that same channel; a channel is
\* closed only by the Deactivate that brings the calls level, and after it
\* getDeliveryEnd returns an error.
KActivationsKeepOpen ==
  /\ [](\A k \in Kinds : \A id \in Keys(k) :
          /\ (Mu(k, id) = Nil /\ Active(k, id) > 0)
               => (Chan(k, id) # Nil /\ chans[Chan(k, id)] = "open")
          /\ \A q \in Procs :
               (pc[q] = "done" /\ op[q] = ActOp(k) /\ arg[q] = id
                  /\ chans[ret[q].ch] = "open")
               => Chan(k, id) = ret[q].ch)
  /\ [][/\ \A k \in Kinds : \A p \in Procs :
             (pc[p] = "body" /\ op[p] = GetOp(k) /\ pc'[p] = "done")
             => IF Active(k, arg[p]) > 0
                  THEN /\ ret'[p].err = ErrNil
                       /\ ret'[p].ch = Chan(k, arg[p])
                       /\ chans[ret'[p].ch] = "open"
                  ELSE ret'[p].err # ErrNil
        /\ \A c \in 1..Len(chans) :
             (chans[c] = "open" /\ chans'[c] = "closed")
             => \E k \in Kinds : \E id \in Keys(k) :
                  /\ Chan(k, id) = c
                  /\ nDeact'[k][id] = nDeact[k][id] + 1
                  /\ nAct[k][id] = nDeact'[k][id]]_vars

\* two activations, one deactivation, and getRouterDownlink succeeded
KActivationsKeepOpenWitness ==
  \E p \in Procs :
    /\ pc[p] = "done"
    /\ op[p] = "getRouterDownlink"
    /\ ret[p].err = ErrNil
    /\ nAct["router"][arg[p]] = 2
    /\ nDeact["router"][arg[p]] = 1

\* C3: Deactivate on an entity whose count is 0 returns the Internal error
\* and leaves the count at 0 and the channel nil; the count is never
\* negative.
DeactivateInactiveFails ==
  /\ [](\A k \in Kinds : \A id \in Keys(k) : Conns(k, id) >= 0)
  /\ [][\A k \in Kinds : \A p \in Procs :
          (pc[p] = "body" /\ op[p] = DeactOp(k) /\ pc'[p] # "body"
             /\ Conns(k, arg[p]) = 0)
          => /\ pc'[p] = "done"
             /\ ret'[p].err = ErrInternal
             /\ Conns(k, arg[p])' = 0
             /\ Chan(k, arg[p])' = Nil]_vars

\* a Deactivate failed on a router that had been activated and deactivated
DeactivateInactiveFailsWitness ==
  \E p \in Procs :
    /\ pc[p] = "done"
    /\ op[p] = "DeactivateRouterDownlink"
    /\ ret[p].err = ErrInternal
    /\ nAct["router"][arg[p]] = 1
    /\ nDeact["router"][arg[p]] = 1

\* C4: getDeliveryEnd for an entity without an active consumer fails with
\* an error of kind NotFound.
GetInactiveIsNotFound ==
  \A k \in Kinds : \A p \in Procs :
    (pc[p] = "done" /\ op[p] = GetOp(k) /\ ret[p].ch = Nil)
    => ret[p].err = ErrNotFound

\* C5: getDeliveryEnd never creates a registry entry: no step of a
\* getRouterDownlink / getHandlerUplink call changes the key set of a map.
GetCreatesNoEntry ==
  [][\A k \in Kinds : \A p \in Procs :
       (op[p] = GetOp(k) /\ pc'[p] # pc[p]) => Keys(k)' = Keys(k)]_vars

\* C6: a send on a send end obtained from getDeliveryEnd never panics,
\* whatever Deactivate does meanwhile (the no-panic half of the claim).
SendNeverPanics ==
  \A k \in Kinds : \A p \in Procs : ~(pc[p] = "panic" /\ op[p] = GetOp(k))

\* C7: the Activate that follows a complete teardown returns a fresh open
\* channel, distinct from every closed one, with the count at 1, and that
\* channel is the entry's delivery end.
FreshChannelAfterTeardown ==
  [][\A k \in Kinds : \A p \in Procs :
       (pc[p] = "body" /\ op[p] = ActOp(k) /\ pc'[p] = "done"
          /\ Active(k, arg[p]) = 0 /\ nDeact[k][arg[p]] > 0)
       => LET c == ret'[p].ch IN
          /\ c # Nil
          /\ chans'[c] = "open"
          /\ \A d \in 1..Len(chans) : chans[d] = "closed" => d # c
          /\ Conns(k, arg[p])' = 1
          /\ Chan(k, arg[p])' = c]_vars

\* a router was activated, torn down and activated again on a new channel
FreshChannelAfterTeardownWitness ==
  \E p \in Procs :
    /\ pc[p] = "done"
    /\ op[p] = "ActivateRouterDownlink"
    /\ nAct["router"][arg[p]] = 2
    /\ nDeact["router"][arg[p]] = 1
    /\ routers[arg[p]].downlinkConns = 1
    /\ routers[arg[p]].downlink = ret[p].ch
    /\ \E d \in 1..Len(chans) : d < ret[p].ch /\ chans[d] = "closed"
LateReportStartsNewGroup ==
  /\ [](\A i, j \in 1..Len(resolved) :
          i # j => Range(resolved[i].members) \cap Range(resolved[j].members) = {})
  /\ [][\A d \in Instances, k \in DedupKeys :
          (/\ Len(reports') = Len(reports) + 1
           /\ reports'[Len(reports')].inst = d
           /\ reports'[Len(reports')].key = k
           /\ groups[d][k].members = <<>>
           /\ \E i \in 1..Len(resolved) : resolved[i].inst = d /\ resolved[i].key = k)
          => /\ groups'[d][k] = [members |-> <<Len(reports')>>, left |-> Window]
             /\ promises'[Len(reports')] = 0
             /\ resolved' = resolved]_vars

\* a key resolved twice, by two groups
LateReportStartsNewGroupWitness ==
  \E i, j \in 1..Len(resolved) :
    /\ i < j
    /\ resolved[i].inst = resolved[j].inst
    /\ resolved[i].key = resolved[j].key

\* C10: a HandleUplink call whose payload does not decode or has no MAC
\* payload returns an error and no message (InvalidArgument when the MAC
\* payload is missing); it invokes neither devices.Get nor devices.Set and
\* none of its steps changes a device record.
BadUplinkNeverReachesStore ==
  /\ [](\A u \in Uplinks :
          (nsPc[u] # "idle" /\ (~nsMsg[u].decodes \/ ~nsMsg[u].mac))
          => /\ nGet[u] = 0
             /\ nSet[u] = 0
             /\ nsPc[u] \in {"decode", "returned"}
             /\ nsPc[u] = "returned"
                  => /\ nsRet[u].err # ErrNil
                     /\ nsRet[u].msg = {}
                     /\ nsMsg[u].decodes => nsRet[u].err = "InvalidArgument")
  /\ [][\A u \in Uplinks :
          (nsPc[u] = "decode" /\ nsPc'[u] # "decode"
             /\ (~nsMsg[u].decodes \/ ~nsMsg[u].mac))
          => devices' = devices]_vars

\* an uplink without MAC payload was refused
BadUplinkNeverReachesStoreWitness ==
  \E u \in Uplinks :
    /\ nsPc[u] = "returned"
    /\ nsMsg[u].decodes
    /\ ~nsMsg[u].mac
    /\ nsRet[u].err = "InvalidArgument"
\* the call u has obtained the device record of its uplink
Obtained(u) == nGet[u] = 1 /\ nsMsg[u].dev \in DOMAIN devices

\* C11: a HandleUplink call that obtained the device record invokes
\* devices.Set exactly once, with the working record that carries the
\* uplink's FCntUp and the LastSeen of this call, whether the template, the
\* MAC processing and the marshalling succeed or fail.
SetExactlyOnce ==
  /\ [](\A u \in Uplinks :
          /\ nSet[u] <= 1
          /\ (nsPc[u] = "returned" /\ Obtained(u)) => nSet[u] = 1)
  /\ [][\A u \in Uplinks :
          nSet'[u] = nSet[u] + 1
          => /\ Obtained(u)
             /\ nsDev[u].FCntUp = nsMsg[u].FCnt
             /\ nsDev[u].LastSeen \in 1..clock
             /\ devices' # devices => devices' = [devices EXCEPT ![nsMsg[u].dev] = nsDev[u]]]_vars

\* a call whose MAC processing failed has made its one Set
SetExactlyOnceWitness ==
  \E u \in Uplinks :
    /\ nsPc[u] = "returned"
    /\ nsRet[u].err = "MAC"
    /\ nSet[u] = 1
    /\ devices[nsMsg[u].dev].FCntUp = nsMsg[u].FCnt
\* C12: when every processing step succeeded and devices.Set failed (its
\* failure is logged as an error), HandleUplink returns a non-nil error.
SetFailureSurfaced ==
  \A u \in Uplinks :
    (nsPc[u] = "returned" /\ nSet[u] = 1 /\ "Error" \in nsLogs[u])
    => nsRet[u].err # ErrNil

\* C13: when a processing step failed after the device was obtained and
\* devices.Set fails too, the call returns the processing error and no
\* message, never the persistence error.
FirstErrorWins ==
  [][\A u \in Uplinks :
       (/\ nsPc[u] = "set"
        /\ nsPc'[u] = "returned"
        /\ nsErr[u] # ErrNil
        /\ "Error" \in nsLogs'[u])
       => /\ nsRet'[u].err = nsErr[u]
          /\ nsRet'[u].err # "Store"
          /\ nsRet'[u].msg = {}]_vars

\* a call whose MAC processing and whose Set both failed returned the MAC error
FirstErrorWinsWitness ==
  \E u \in Uplinks :
    /\ nsPc[u] = "returned"
    /\ "Error" \in nsLogs[u]
    /\ nsRet[u].err = "MAC"
\* C14: the downlink counter HandleUplink writes into the response template
\* (the downlink MAC FCnt and, when there is one, the LoRaWAN configuration
\* FCnt) is the FCntDown of the record read from the store, the value before
\* the MAC processing of this uplink; FPort and DevAddr are the uplink's.
TemplateMirrorsUplink ==
  [][\A u \in Uplinks :
       (nsPc[u] = "process" /\ nsPc'[u] = "set")
       => \A msg \in nsRet'[u].msg : \A t \in msg.ResponseTemplate :
            /\ t.mac.FCnt = nsDev[u].FCntDown
            /\ nsMsg[u].tmpl = "optionConf" => t.confFCnt = nsDev[u].FCntDown
            /\ t.mac.FPort = nsMsg[u].FPort
            /\ t.mac.DevAddr = DevAddrOf(nsMsg[u])]_vars

\* a returned template carries the counter from before the increment that
\* the MAC processing committed
TemplateMirrorsUplinkWitness ==
  \E u \in Uplinks :
    /\ nsPc[u] = "returned"
    /\ nsMsg[u].tmpl = "optionConf"
    /\ \E msg \in nsRet[u].msg : \E t \in msg.ResponseTemplate :
         /\ t.confFCnt = t.mac.FCnt
         /\ t.mac.FCnt < devices[nsMsg[u].dev].FCntDown

\* C16: a successful HandleUplink whose template has no downlink option
\* returns the message with a nil response template; with a downlink option
\* the message carries the template with its marshalled payload.
NoOptionNoTemplate ==
  \A u \in Uplinks :
    (nsPc[u] = "returned" /\ nsRet[u].err = ErrNil /\ nGet[u] = 1)
    => /\ Cardinality(nsRet[u].msg) = 1
       /\ \A msg \in nsRet[u].msg :
            IF nsMsg[u].tmpl = "none"
              THEN msg.ResponseTemplate = {}
              ELSE /\ Cardinality(msg.ResponseTemplate) = 1
                   /\ \A t \in msg.ResponseTemplate :
                        t.option /\ t.Payload = MarshalBinary(t.mac)

\* two successful calls, one returned without and one with a template
NoOptionNoTemplateWitness ==
  \E u, v \in Uplinks :
    /\ nsPc[u] = "returned" /\ nsPc[v] = "returned"
    /\ nsRet[u].err = ErrNil /\ nsRet[v].err = ErrNil
    /\ \E msg \in nsRet[u].msg : msg.ResponseTemplate = {}
    /\ \E msg \in nsRet[v].msg : msg.ResponseTemplate # {}
\* C15: concurrent HandleUplink calls for one device are serialized: the
\* call that holds the device's update works on the record as committed by
\* the calls before it, so no committed update is lost and no two calls
\* take the same downlink counter as their pre-increment value.
SerializedUplinks ==
  \A u \in Uplinks :
    nsPc[u] = "process" => nsDev[u] = devices[nsMsg[u].dev]
\* C17: HandleUplink for a device the store does not know returns the
\* store's NotFound error and no message, invokes no devices.Set, and
\* creates no record.
UnknownDeviceNotFound ==
  /\ [](DOMAIN devices = KnownDevs)
  /\ [](\A u \in Uplinks :
          (nsPc[u] = "returned" /\ nGet[u] = 1 /\ nsMsg[u].dev \notin KnownDevs)
          => /\ nsRet[u].err = ErrNotFound
             /\ nsRet[u].msg = {}
             /\ nSet[u] = 0)
  /\ [][\A u \in Uplinks :
          (nsPc[u] = "get" /\ nsPc'[u] # "get" /\ nsMsg[u].dev \notin KnownDevs)
          => devices' = devices /\ nsPc'[u] = "returned"]_vars

\* the uplink of an unknown device was refused after the Get
UnknownDeviceNotFoundWitness ==
  \E u \in Uplinks :
    /\ nsPc[u] = "returned"
    /\ nGet[u] = 1
    /\ nsMsg[u].dev \notin KnownDevs
    /\ nsRet[u].err = ErrNotFound

GetTakesOnlyEntryLock ==
  \A p \in Procs :
    /\ routersLock = p => op[p] # "getRouterDownlink"
    /\ handlersLock = p => op[p] # "getHandlerUplink"
\* C18: once the earlier steps of Init succeeded, every outcome of
\* checkPrefixAnnouncements (its error, or a prefix that is not announced,
\* logged as a warning) lets Init go on: the status becomes healthy and Init
\* returns nil.
PrefixMismatchNotFatal ==
  /\ [](initPc = "returned" /\ nsConn # Nil => initRet = ErrNil /\ status = "healthy")
  /\ [](initPc = "status" => checkErr # NoCheck)
  /\ [][(initPc \in {"getPrefixes", "discover", "compare"})
          => (/\ initPc' \in {"getPrefixes", "discover", "compare", "status"}
              /\ initRet' = initRet)]_vars
  /\ [][(initPc = "status")
          => (initPc' = "returned" /\ initRet' = ErrNil /\ status' = "healthy")]_vars

\* Init returned nil, healthy, after it warned of a prefix that is not announced
PrefixMismatchNotFatalWitness ==
  /\ initPc = "returned"
  /\ initRet = ErrNil
  /\ status = "healthy"
  /\ \E e \in initLogs : e[1] = "Warn"
\* ------------------------------------------------------ api/pool: actions
\* A *conn is a record: cancel is "nil" until the dial goroutine assigns it,
\* wg is the WaitGroup counter, dials counts the DialContext calls made for
\* it, removed tells that closeTarget deleted it from Pool.conns and by
\* names the operation that had closeTarget do so.  The
\* dial options only travel to DialContext, whose result is open anyway.
NewConn(target, opts) ==
  [target |-> target, cancel |-> "nil", conn |-> Nil,
   err |-> ErrNil, wg |-> 0, dials |-> 0, closed |-> FALSE, removed |-> FALSE,
   by |-> ""]

PoolRunning == ~poolPanic

\* faulty variant: the lookup is dropped, every call makes its own entry
PoolDialNoLookup(c, target, opts) ==
  /\ PoolRunning
  /\ dialers[c].pc \in {"idle", "done"}
  /\ nPoolCalls < MaxPoolCalls
  /\ nPoolCalls' = nPoolCalls + 1
  /\ entries' = Append(entries, [NewConn(target, opts) EXCEPT !.wg = 1])
  /\ poolConns' = [poolConns EXCEPT ![target] = Len(entries')]
  /\ dialers' = [dialers EXCEPT ![c] =
       [pc |-> "wait", target |-> target, entry |-> Len(entries'),
        conn |-> Nil, err |-> ErrNil]]
  /\ UNCHANGED poolPanic

\* Pool.dial, the critical section: under p.mu, an absent target gets a new
\* entry whose dial is started (c.Add(1) and the goroutine's start); the
\* caller leaves with the entry of the target.
PoolDial(c, target, opts) ==
  /\ PoolRunning
  /\ dialers[c].pc \in {"idle", "done"}
  /\ nPoolCalls < MaxPoolCalls
  /\ nPoolCalls' = nPoolCalls + 1
  /\ IF poolConns[target] = Nil
       THEN /\ entries' = Append(entries, [NewConn(target, opts) EXCEPT !.wg = 1])
            /\ poolConns' = [poolConns EXCEPT ![target] = Len(entries')]
       ELSE UNCHANGED <<entries, poolConns>>
  /\ dialers' = [dialers EXCEPT ![c] =
       [pc |-> "wait", target |-> target, entry |-> poolConns'[target],
        conn |-> Nil, err |-> ErrNil]]
  /\ UNCHANGED poolPanic

DialInsecure(c, target) == PoolDial(c, target, "insecure")

DialSecure(c, target) == PoolDial(c, target, "tls")

\* Pool.dial after the unlock: c.Wait() and the return of c.conn, c.err
PoolDialWait(c) ==
  /\ PoolRunning
  /\ dialers[c].pc = "wait"
  /\ entries[dialers[c].entry].wg = 0
  /\ dialers' = [dialers EXCEPT ![c].pc = "done",
                                ![c].conn = entries[dialers[c].entry].conn,
                                ![c].err = entries[dialers[c].entry].err]
  /\ UNCHANGED <<poolConns, entries, nPoolCalls, poolPanic>>

\* conn.dial, the goroutine's first statement: c.cancel is assigned
connDialWithCancel(e) ==
  /\ PoolRunning
  /\ entries[e].cancel = "nil"
  /\ entries' = [entries EXCEPT ![e].cancel = "set"]
  /\ UNCHANGED <<poolConns, dialers, nPoolCalls, poolPanic>>

\* conn.dial, the goroutine's dial: DialContext returns a connection or an
\* error (either one also when the context was cancelled meanwhile), the
\* result is stored and the WaitGroup released.
connDialContext(e, ok) ==
  /\ PoolRunning
  /\ entries[e].cancel # "nil"
  /\ entries[e].wg > 0
  /\ entries' = [entries EXCEPT ![e].conn = IF ok THEN e ELSE Nil,
                                ![e].err = IF ok THEN ErrNil ELSE "Dial",
                                ![e].dials = @ + 1,
                                ![e].wg = @ - 1]
  /\ UNCHANGED <<poolConns, dialers, nPoolCalls, poolPanic>>

\* the part of the pool that closeTarget reads and writes
PoolState == [conns |-> poolConns, entries |-> entries, panic |-> poolPanic]

\* closeTarget: calls the entry's cancel (a nil function value panics),
\* closes its connection if there is one, deletes the entry.  The read of
\* c.cancel and c.conn is not ordered with the goroutine's writes; it sees
\* the value before or after them, as the interleaving of the steps gives.
closeTarget(st, target) ==
  IF st.panic \/ st.conns[target] = Nil THEN st
  ELSE LET e == st.conns[target]
       IN IF st.entries[e].cancel = "nil"
            THEN [st EXCEPT !.panic = TRUE]
            ELSE [st EXCEPT !.entries[e].cancel = "called",
                            !.entries[e].closed = (st.entries[e].conn # Nil),
                            !.entries[e].removed = TRUE,
                            !.conns[target] = Nil]

RECURSIVE closeTargets(_, _)
closeTargets(st, targets) ==
  IF targets = <<>> THEN st
  ELSE closeTargets(closeTarget(st, Head(targets)), Tail(targets))

\* the entries after an operation, each newly removed one naming it
RemovedBy(old, new, operation) ==
  [e \in DOMAIN new |->
     IF new[e].removed /\ ~old[e].removed
       THEN [new[e] EXCEPT !.by = operation] ELSE new[e]]

\* the orders in which the targets of a set can be visited
Orders(S) ==
  {s \in UNION {[1..n -> S] : n \in {Cardinality(S)}} :
     \A i, j \in DOMAIN s : i # j => s[i] # s[j]}

TargetLists == UNION {Orders(S) : S \in SUBSET Targets}

\* Pool.Close(target...): under p.mu, closeTarget for every target given,
\* or for every key of the map (in the map's order) when none is given.
PoolClose(targets) ==
  /\ PoolRunning
  /\ nPoolCalls < MaxPoolCalls
  /\ nPoolCalls' = nPoolCalls + 1
  /\ \E order \in IF targets = <<>>
                    THEN Orders({t \in Targets : poolConns[t] # Nil})
                    ELSE {targets} :
       LET st == closeTargets(PoolState, order)
       IN /\ poolConns' = st.conns
          /\ entries' = RemovedBy(entries, st.entries, "Close")
          /\ poolPanic' = st.panic
  /\ UNCHANGED dialers

\* Pool.CloseConn(conn): under p.mu, closeTarget for the first entry the
\* map's order gives whose connection is conn; a nil conn matches an entry
\* that has no connection (yet).
CloseConn(conn) ==
  /\ PoolRunning
  /\ nPoolCalls < MaxPoolCalls
  /\ nPoolCalls' = nPoolCalls + 1
  /\ LET matches == {t \in Targets : /\ poolConns[t] # Nil
                                     /\ entries[poolConns[t]].conn = conn}
     IN IF matches = {}
          THEN UNCHANGED <<poolConns, entries, poolPanic>>
          ELSE \E t \in matches :
                 LET st == closeTarget(PoolState, t)
                 IN /\ poolConns' = st.conns
                    /\ entries' = RemovedBy(entries, st.entries, "CloseConn")
                    /\ poolPanic' = st.panic
  /\ UNCHANGED dialers

NextPool ==
  \/ \E c \in Dialers, t \in Targets : DialInsecure(c, t) /\ UNCHANGED <<otherVars, initVars>>
  \/ \E c \in Dialers, t \in Targets : DialSecure(c, t) /\ UNCHANGED <<otherVars, initVars>>
  \/ \E c \in Dialers : PoolDialWait(c) /\ UNCHANGED <<otherVars, initVars>>
  \/ \E e \in DOMAIN entries : connDialWithCancel(e) /\ UNCHANGED <<otherVars, initVars>>
  \/ \E e \in DOMAIN entries, ok \in BOOLEAN : connDialContext(e, ok) /\ UNCHANGED <<otherVars, initVars>>
  \/ \E targets \in TargetLists : PoolClose(targets) /\ UNCHANGED <<otherVars, initVars>>
  \/ \E conn \in {Nil} \cup DOMAIN entries : CloseConn(conn) /\ UNCHANGED <<otherVars, initVars>>

SpecPool == InitOther /\ [][NextPool]_vars

\* C22: getHandlerConn calls Discover and Dial only while the entry holds no
\* connection: a call that finds one returns it and calls neither; the
\* cached connection never changes, so at most one dial per id is cached
\* and every successful call for an id returns the same connection; a
\* failed Discover or Dial caches nothing and returns the error.
HandlerConnCachedOnce ==
  /\ [](\A p \in Procs :
          (pc[p] = "done" /\ op[p] = "getHandlerConn")
          => IF ret[p].err = ErrNil
               THEN ret[p].conn # Nil /\ ret[p].conn = handlers[arg[p]].conn
               ELSE ret[p].conn = Nil /\ ret[p].err \in {"Discover", "Dial"})
  /\ [][\A p \in Procs :
          (pc[p] = "body" /\ op[p] = "getHandlerConn" /\ pc'[p] = "done")
          => /\ handlers[arg[p]].conn # Nil
                  => /\ ret'[p].called = {}
                     /\ ret'[p].err = ErrNil
                     /\ ret'[p].conn = handlers[arg[p]].conn
             /\ ret'[p].err # ErrNil => handlers'[arg[p]].conn = handlers[arg[p]].conn
             /\ \A id \in DOMAIN handlers :
                  handlers[id].conn # Nil => handlers'[id].conn = handlers[id].conn]_vars

\* two callers hold the one connection of a handler: one dialed it, the
\* other got it from the entry
HandlerConnCachedOnceWitness ==
  \E p, q \in Procs :
    /\ p # q
    /\ pc[p] = "done" /\ pc[q] = "done"
    /\ op[p] = "getHandlerConn" /\ op[q] = "getHandlerConn"
    /\ arg[p] = arg[q]
    /\ ret[p].err = ErrNil /\ ret[q].err = ErrNil
    /\ ret[p].conn = ret[q].conn
    /\ ret[p].called = {"Discover", "Dial"}
    /\ ret[q].called = {}
CountMatchesCalls ==
  /\ [](\A k \in Kinds : \A id \in Ids :
          IF id \in Keys(k) THEN Conns(k, id) = Active(k, id)
                            ELSE nAct[k][id] = 0 /\ nDeact[k][id] = 0)
  /\ [][\A k \in Kinds : \A id \in Keys(k) :
          /\ id \in Keys(k)'
          /\ Conns(k, id)' \in {Conns(k, id) - 1, Conns(k, id), Conns(k, id) + 1}]_vars

\* two first activations of one id in flight: one holds the new entry's lock,
\* the other waits for it
CountMatchesCallsWitness ==
  \E k \in Kinds : \E p, q \in Procs :
    /\ p # q
    /\ op[p] = ActOp(k) /\ op[q] = ActOp(k)
    /\ arg[p] = arg[q]
    /\ pc[p] = "body" /\ pc[q] = "lock"
    /\ nAct[k][arg[p]] = 0
\* C26: an Activate made while the entity has consumers returns the
\* entity's existing channel and makes none, so all active consumers hold
\* the one open channel of the entity (a message sent on it goes to one
\* receiver); an open channel is closed only by the Deactivate of the last
\* consumer, for all of them at once.
OneChannelPerEntity ==
  /\ [](\A c \in 1..Len(chans) :
          chans[c] = "open"
          => \E k \in Kinds : \E id \in Keys(k) : Chan(k, id) = c /\ Conns(k, id) > 0)
  /\ [](\A k \in Kinds : \A i, j \in Keys(k) :
          (i # j /\ Chan(k, i) # Nil) => Chan(k, i) # Chan(k, j))
  /\ [][\A k \in Kinds : \A p \in Procs :
          (/\ pc[p] = "body" /\ pc'[p] = "done"
           /\ op[p] = ActOp(k)
           /\ Conns(k, arg[p]) > 0)
          => /\ ret'[p].ch = Chan(k, arg[p])
             /\ Chan(k, arg[p])' = Chan(k, arg[p])
             /\ chans' = chans]_vars
  /\ [][\A c \in 1..Len(chans) :
          (chans[c] = "open" /\ chans'[c] = "closed")
          => \E k \in Kinds : \E p \in Procs :
               /\ pc[p] = "body" /\ pc'[p] = "done"
               /\ op[p] = DeactOp(k)
               /\ Chan(k, arg[p]) = c
               /\ Conns(k, arg[p]) = 1
               /\ Conns(k, arg[p])' = 0]_vars

\* two consumers of one entity: the second activation returned the channel
\* the first one made
OneChannelPerEntityWitness ==
  \E k \in Kinds : \E p \in Procs :
    /\ pc[p] = "done"
    /\ op[p] = ActOp(k)
    /\ Conns(k, arg[p]) = 2
    /\ ret[p].ch = Chan(k, arg[p])
    /\ Len(chans) = 1

\* ---------------------------------------------------- api/pool: claims
Finished(e) == entries[e].wg = 0
Failed(e) == Finished(e) /\ entries[e].err # ErrNil
\* the step is c's pass through the critical section of Pool.dial for t
DialStep(c, t) ==
  /\ dialers[c].pc \in {"idle", "done"}
  /\ dialers'[c].pc = "wait"
  /\ dialers'[c].target = t

\* C23: whatever the number of callers of DialInsecure / DialSecure for a
\* target, the pool holds at most one entry of the target that closeTarget
\* has not removed, and it is the one in Pool.conns; a dial for a target
\* that has an entry makes no new one and takes that entry; DialContext
\* is called at most once per entry; a caller returns only after the dial
\* of its entry has finished, with the connection and error of the entry,
\* so the callers of one entry all return the same pair.
OneDialPerEntry ==
  /\ [](\A t \in Targets :
          LET live == {e \in DOMAIN entries : entries[e].target = t /\ ~entries[e].removed}
          IN /\ Cardinality(live) <= 1
             /\ live = IF poolConns[t] = Nil THEN {} ELSE {poolConns[t]})
  /\ [](\A e \in DOMAIN entries :
          /\ entries[e].dials <= 1
          /\ entries[e].dials = 1 <=> Finished(e))
  /\ [](\A c \in Dialers :
          dialers[c].pc = "done" =>
            /\ Finished(dialers[c].entry)
            /\ dialers[c].conn = entries[dialers[c].entry].conn
            /\ dialers[c].err = entries[dialers[c].entry].err)
  /\ [](\A c, d \in Dialers :
          (dialers[c].pc = "done" /\ dialers[d].pc = "done"
             /\ dialers[c].entry = dialers[d].entry) =>
            (dialers[c].conn = dialers[d].conn /\ dialers[c].err = dialers[d].err))
  /\ [][\A c \in Dialers, t \in Targets :
          (DialStep(c, t) /\ poolConns[t] # Nil) =>
            (entries' = entries /\ dialers'[c].entry = poolConns[t])]_vars

\* two callers of one target have returned, both with the connection of the
\* one entry whose dial succeeded
OneDialPerEntryWitness ==
  \E c, d \in Dialers :
    /\ c # d
    /\ dialers[c].pc = "done" /\ dialers[d].pc = "done"
    /\ dialers[c].target = dialers[d].target
    /\ dialers[c].entry = dialers[d].entry
    /\ dialers[c].conn # Nil
    /\ dialers[c].conn = dialers[d].conn
    /\ Len(entries) = 1

\* C25: closeTarget never calls a cancel function that the dial goroutine
\* has not assigned yet, in whatever order Pool.dial, the goroutine and
\* Close / CloseConn run.
NoNilCancelCall == ~poolPanic

\* C27: while the entry of a target whose dial ended with an error is in
\* the pool, a dial for the target makes no new entry and takes that entry,
\* and returns its error; a later entry of the target exists only after
\* Pool.Close removed that one; a dial for a target without an entry makes
\* a new entry and dials.
FailedDialCachedUntilClose ==
  /\ [][\A c \in Dialers, t \in Targets :
          (DialStep(c, t) /\ poolConns[t] # Nil /\ Failed(poolConns[t])) =>
            (entries' = entries /\ dialers'[c].entry = poolConns[t])]_vars
  /\ [](\A c \in Dialers :
          (dialers[c].pc = "done" /\ Failed(dialers[c].entry)) =>
            (dialers[c].err = entries[dialers[c].entry].err /\ dialers[c].conn = Nil))
  /\ [](\A e, f \in DOMAIN entries :
          (Failed(e) /\ e < f /\ entries[f].target = entries[e].target) =>
            (entries[e].removed /\ entries[e].by = "Close"))
  /\ [][\A c \in Dialers, t \in Targets :
          (DialStep(c, t) /\ poolConns[t] = Nil) =>
            (/\ Len(entries') = Len(entries) + 1
             /\ dialers'[c].entry = Len(entries')
             /\ entries'[Len(entries')].wg = 1)]_vars
====
